---- MODULE Spec2Model ----
(***************************************************************************)
(* phnx: Speck128/256 CTR encryption, (24,12) Golay forward error          *)
(* correction and eight-way slicing of a file.                             *)
(*                                                                         *)
(* Words wider than 31 bits (u64 cipher words, u32 CRC values) are kept as *)
(* little-endian byte sequences, so every width of the source is exact.    *)
(***************************************************************************)
EXTENDS Integers, Sequences, FiniteSets, TLC

VARIABLES
    h_pc,       \* position of the codec harness (golay.rs self_test loop body)
    h_gc,       \* the GolayCode object of the harness
    h_x,        \* data word last encoded
    h_y,        \* codeword returned by encode
    h_errors,   \* error mask injected so far
    h_z,        \* result of the last decode, NoResult before it
    h_before,   \* the counters as they were before the last call
    fs,         \* the file system: file name |-> content, a byte sequence
    pc,         \* position of process_one_file: idle, open or loop
    loc,        \* the locals of process_one_file
    call,       \* the arguments of the running call and the files before it
    io,         \* slice reads done and files created or written by the call
    hist,       \* the calls that have returned, in order
    tamper,     \* what happened to the slices between calls
    overflow_checks, \* the build panics on integer overflow (it wraps if not)
    bar,        \* a call on a file of which only the length is kept
    main,       \* main.rs: the argument list and the locals of its loop
    blk,        \* one 12-byte block on its way through the eight slices
    ctr         \* a buffer on its way through the CTR passes of the loop

hvars == <<h_pc, h_gc, h_x, h_y, h_errors, h_z, h_before>>

fvars == <<fs, pc, loc, call, io, hist, tamper>>

bvars == <<overflow_checks, bar, main, blk, ctr>>

vars == <<h_pc, h_gc, h_x, h_y, h_errors, h_z, h_before,
          fs, pc, loc, call, io, hist, tamper, overflow_checks, bar,
          main, blk, ctr>>

(***************************************************************************)
(* Bounds of the model.                                                    *)
(***************************************************************************)
NumWords == 2       \* data words the codec harness encodes
MaxFlips == 4       \* bits the codec harness flips in one codeword
MaxDecodes == 1     \* decode calls on one GolayCode object

(***************************************************************************)
(* Bit operations on naturals.                                             *)
(***************************************************************************)
RECURSIVE XorBits(_, _)
XorBits(a, b) ==
    IF a = 0 THEN b
    ELSE IF b = 0 THEN a
    ELSE ((a + b) % 2) + 2 * XorBits(a \div 2, b \div 2)

RECURSIVE AndBits(_, _)
AndBits(a, b) ==
    IF a = 0 \/ b = 0 THEN 0
    ELSE ((a % 2) * (b % 2)) + 2 * AndBits(a \div 2, b \div 2)

RECURSIVE PopBits(_)
PopBits(a) == IF a = 0 THEN 0 ELSE (a % 2) + PopBits(a \div 2)

\* the byte operations, tabulated once
Xor8 == [a \in 0..255 |-> [b \in 0..255 |-> XorBits(a, b)]]

And8 == [a \in 0..255 |-> [b \in 0..255 |-> AndBits(a, b)]]

Pop8 == [a \in 0..255 |-> PopBits(a)]

\* a ^ b, a & b and count_ones on values below 2^31, byte by byte
BitXor(a, b) ==
    Xor8[a % 256][b % 256]
    + 256 * Xor8[(a \div 256) % 256][(b \div 256) % 256]
    + 65536 * Xor8[(a \div 65536) % 256][(b \div 65536) % 256]
    + 16777216 * Xor8[a \div 16777216][b \div 16777216]

BitAnd(a, b) ==
    And8[a % 256][b % 256]
    + 256 * And8[(a \div 256) % 256][(b \div 256) % 256]
    + 65536 * And8[(a \div 65536) % 256][(b \div 65536) % 256]
    + 16777216 * And8[a \div 16777216][b \div 16777216]

count_ones(a) ==
    Pop8[a % 256] + Pop8[(a \div 256) % 256]
    + Pop8[(a \div 65536) % 256] + Pop8[a \div 16777216]

BitOf(a, i) == (a \div (2 ^ i)) % 2

(***************************************************************************)
(* golay.rs                                                                *)
(***************************************************************************)
GOLAY_MATRIX ==
    << \h9f1, \h4fa, \h27d, \h93e, \hc9d, \he4e,
       \hf25, \hf92, \h7c9, \h3e6, \h557, \haab >>

\* GolayCode::new
GolayCodeNew ==
    [processed_codewords |-> 0, corrected_codewords |-> 0,
     uncorrectable_codewords |-> 0]

\* the loop of checksum_bits: y = (y << 1) | parity(x & GOLAY_MATRIX[i])
RECURSIVE checksum_loop(_, _, _)
checksum_loop(x, i, y) ==
    IF i = 12 THEN y
    ELSE checksum_loop(x, i + 1,
                       2 * y + (count_ones(BitAnd(x, GOLAY_MATRIX[i + 1])) % 2))

checksum_bits(x) == checksum_loop(x, 0, 0)

\* checksum_bits tabulated over the 12-bit words (the only arguments it gets)
ChecksumTable == [x \in 0..4095 |-> checksum_bits(x)]

encode(x) == (x % 4096) * 4096 + ChecksumTable[x % 4096]

Least(S) == CHOOSE i \in S : \A j \in S : i <= j

\* mutant of Corrected: the correction is not counted
NotCounted(gc) == gc

\* the largest i32: the counters of GolayCode are i32, lines 7..9
I32_MAX == 2147483647

\* v += 1 on an i32 in a build without overflow checks: it wraps
Incremented(v) == IF v = I32_MAX THEN (-I32_MAX) - 1 ELSE v + 1

\* v += 1 on an i32 in a build with overflow checks panics
Overflows(v) == v = I32_MAX

\* self.corrected_codewords += 1
Corrected(gc) ==
    [gc EXCEPT !.corrected_codewords = Incremented(@)]

\* mutant of error_mask: the data bit counted from the other end
error_mask_lsb(i) == 2 ^ i

\* let error_mask = 1u32 << (11 - i)
error_mask(i) == 2 ^ (11 - i)

\* mutant of CountIfNonZero: a clean codeword counted as corrected
CountAlways(gc, weight) == Corrected(gc)

\* if weight != 0 { self.corrected_codewords += 1; }
CountIfNonZero(gc, weight) == IF weight # 0 THEN Corrected(gc) ELSE gc

\* mutant of correctable: a syndrome of weight 4 is taken for checksum errors
correctable_up_to_four(weight) == weight <= 4

\* if weight <= 3: the errors are in the checksum bits
correctable(weight) == weight <= 3

\* GolayCode::decode: the value returned and the object afterwards
decode(gc0, x) ==
    LET gc == [gc0 EXCEPT !.processed_codewords = Incremented(@)]
        received_data == (x \div 4096) % 4096
        received_checksum == x % 4096
        expected_checksum == ChecksumTable[received_data]
        syndrome == BitXor(expected_checksum, received_checksum)
        weight == count_ones(syndrome)
        hit1 == {i \in 0..11 :
                    count_ones(BitXor(syndrome, GOLAY_MATRIX[i + 1])) <= 2}
        inverted_syndrome == ChecksumTable[syndrome]
        w == count_ones(inverted_syndrome)
        hit2 == {i \in 0..11 :
                    count_ones(BitXor(inverted_syndrome, GOLAY_MATRIX[i + 1])) <= 2}
    IN  IF correctable(weight)
        THEN [z |-> received_data,
              gc |-> CountIfNonZero(gc, weight)]
        ELSE IF hit1 # {}
        THEN [z |-> BitXor(received_data, error_mask(Least(hit1))),
              gc |-> Corrected(gc)]
        ELSE IF w <= 3
        THEN [z |-> BitXor(received_data, inverted_syndrome),
              gc |-> Corrected(gc)]
        ELSE IF hit2 # {}
        THEN [z |-> BitXor(BitXor(received_data, inverted_syndrome),
                           GOLAY_MATRIX[Least(hit2) + 1]),
              gc |-> Corrected(gc)]
        ELSE [z |-> -1,
              gc |-> [gc EXCEPT !.uncorrectable_codewords = Incremented(@)]]

(***************************************************************************)
(* Bytes and little-endian words.  A u64 is 8 bytes, a u32 is 4 bytes,     *)
(* least significant first.                                                *)
(***************************************************************************)
Byte == 0..255

\* e, evaluated once v has its value: the loops below pass on values, not
\* pending computations
After(v, e) == IF v = v THEN e ELSE e

\* a function over 1..n made an explicit sequence
Seq8(f) == <<f[1], f[2], f[3], f[4], f[5], f[6], f[7], f[8]>>

Seq4(f) == <<f[1], f[2], f[3], f[4]>>

XorBytes(a, b) == SubSeq([i \in 1..Len(a) |-> Xor8[a[i]][b[i]]], 1, Len(a))

\* u64::from_le_bytes / to_le_bytes of a value small enough to be a number
U64(n) ==
    << n % 256, (n \div 256) % 256, (n \div 65536) % 256,
       (n \div 16777216) % 256, 0, 0, 0, 0 >>

AllOnes64 == <<255, 255, 255, 255, 255, 255, 255, 255>>

\* 0xfffffffffffffffe
MinusTwo64 == <<254, 255, 255, 255, 255, 255, 255, 255>>

\* wrapping_add on u64
WrappingAdd(a, b) ==
    LET s1 == a[1] + b[1]
        s2 == a[2] + b[2] + (s1 \div 256)
        s3 == a[3] + b[3] + (s2 \div 256)
        s4 == a[4] + b[4] + (s3 \div 256)
        s5 == a[5] + b[5] + (s4 \div 256)
        s6 == a[6] + b[6] + (s5 \div 256)
        s7 == a[7] + b[7] + (s6 \div 256)
        s8 == a[8] + b[8] + (s7 \div 256)
    IN  << s1 % 256, s2 % 256, s3 % 256, s4 % 256,
           s5 % 256, s6 % 256, s7 % 256, s8 % 256 >>

\* x.rotate_right(8)
RotateRight8(x) == <<x[2], x[3], x[4], x[5], x[6], x[7], x[8], x[1]>>

\* y.rotate_left(3)
RotateLeft3(y) ==
    << ((y[1] * 8) % 256) + (y[8] \div 32), ((y[2] * 8) % 256) + (y[1] \div 32),
       ((y[3] * 8) % 256) + (y[2] \div 32), ((y[4] * 8) % 256) + (y[3] \div 32),
       ((y[5] * 8) % 256) + (y[4] \div 32), ((y[6] * 8) % 256) + (y[5] \div 32),
       ((y[7] * 8) % 256) + (y[6] \div 32), ((y[8] * 8) % 256) + (y[7] \div 32) >>

\* a ^ b on u64
Xor64(a, b) ==
    << Xor8[a[1]][b[1]], Xor8[a[2]][b[2]], Xor8[a[3]][b[3]], Xor8[a[4]][b[4]],
       Xor8[a[5]][b[5]], Xor8[a[6]][b[6]], Xor8[a[7]][b[7]], Xor8[a[8]][b[8]] >>

\* wrapping_sub on u64
WrappingSub(a, b) ==
    LET d1 == a[1] - b[1]
        d2 == a[2] - b[2] + (d1 \div 256)
        d3 == a[3] - b[3] + (d2 \div 256)
        d4 == a[4] - b[4] + (d3 \div 256)
        d5 == a[5] - b[5] + (d4 \div 256)
        d6 == a[6] - b[6] + (d5 \div 256)
        d7 == a[7] - b[7] + (d6 \div 256)
        d8 == a[8] - b[8] + (d7 \div 256)
    IN  << d1 % 256, d2 % 256, d3 % 256, d4 % 256,
           d5 % 256, d6 % 256, d7 % 256, d8 % 256 >>

\* a < b, for unsigned little-endian numbers of one length
Less(a, b) ==
    \E i \in 1..Len(a) :
        a[i] < b[i] /\ \A j \in (i + 1)..Len(a) : a[j] = b[j]

\* x > 0 for an i64
Positive(x) == x[8] < 128 /\ x # <<0, 0, 0, 0, 0, 0, 0, 0>>

\* the product of a u32 and a number below 256, in full: five bytes
Times(a, k) ==
    LET p1 == a[1] * k
        p2 == a[2] * k + (p1 \div 256)
        p3 == a[3] * k + (p2 \div 256)
        p4 == a[4] * k + (p3 \div 256)
    IN  << p1 % 256, p2 % 256, p3 % 256, p4 % 256, p4 \div 256 >>

(***************************************************************************)
(* speck.rs                                                                *)
(***************************************************************************)
\* *y = y.rotate_left(3); *y ^= *x, for the new x
round_y(x1, y) == <<x1, Xor64(RotateLeft3(y), x1)>>

\* speck_round(&mut x, &mut y, k): the new <<x, y>>
speck_round(x, y, k) ==
    round_y(Xor64(WrappingAdd(RotateRight8(x), y), k), y)

\* The loops over the rounds run the rounds lo..hi-1 in their order, the
\* range halved so that the evaluation nests to the logarithm of the number
\* of rounds.

\* one pass of the loop of speck_schedule, lines 14..18; bcd is 1-indexed
schedule_round(st, i, r) ==
    [a |-> r[2], bcd |-> [st.bcd EXCEPT ![(i % 3) + 1] = r[1]],
     schedule |-> Append(st.schedule, st.a)]

RECURSIVE schedule_loop(_, _, _)
schedule_rest(mid, hi, left) == After(left, schedule_loop(mid, hi, left))

schedule_loop(lo, hi, st) ==
    IF lo >= hi THEN st
    ELSE IF hi - lo = 1
    THEN schedule_round(st, lo, speck_round(st.bcd[(lo % 3) + 1], st.a, U64(lo)))
    ELSE schedule_rest((lo + hi) \div 2, hi,
                       schedule_loop(lo, (lo + hi) \div 2, st))

\* lines 10..20: schedule[33] = a after the loop
schedule_last(st) == Append(st.schedule, st.a)

speck_schedule(key) ==
    schedule_last(
        schedule_loop(0, 33, [a |-> key[1], bcd |-> <<key[2], key[3], key[4]>>,
                              schedule |-> <<>>]))

\* the rounds of speck_encrypt on <<x, y>>
RECURSIVE encrypt_loop(_, _, _, _)
encrypt_rest(mid, hi, left, schedule) ==
    After(left, encrypt_loop(mid, hi, left, schedule))

encrypt_loop(lo, hi, xy, schedule) ==
    IF lo >= hi THEN xy
    ELSE IF hi - lo = 1 THEN speck_round(xy[1], xy[2], schedule[lo + 1])
    ELSE encrypt_rest((lo + hi) \div 2, hi,
                      encrypt_loop(lo, (lo + hi) \div 2, xy, schedule),
                      schedule)

\* [y, x] of line 28
swapped(xy) == <<xy[2], xy[1]>>

\* speck_encrypt(&[p0, p1], schedule) = [y, x]
speck_encrypt(plaintext, schedule) ==
    swapped(encrypt_loop(0, 34, <<plaintext[2], plaintext[1]>>, schedule))

\* the scalar speck_encrypt4: ct is the eight words, a round runs lane by lane
lanes(r0, r1, r2, r3) ==
    <<r0[2], r1[2], r2[2], r3[2], r0[1], r1[1], r2[1], r3[1]>>

encrypt4_round(ct, k) ==
    lanes(speck_round(ct[5], ct[1], k), speck_round(ct[6], ct[2], k),
          speck_round(ct[7], ct[3], k), speck_round(ct[8], ct[4], k))

RECURSIVE encrypt4_loop(_, _, _, _)
encrypt4_rest(mid, hi, left, schedule) ==
    After(left, encrypt4_loop(mid, hi, left, schedule))

encrypt4_loop(lo, hi, ct, schedule) ==
    IF lo >= hi THEN ct
    ELSE IF hi - lo = 1 THEN encrypt4_round(ct, schedule[lo + 1])
    ELSE encrypt4_rest((lo + hi) \div 2, hi,
                       encrypt4_loop(lo, (lo + hi) \div 2, ct, schedule),
                       schedule)

speck_encrypt4(plaintext, schedule) == encrypt4_loop(0, 34, plaintext, schedule)

\* bytes_to_uint64: up to 8 bytes, zero extended
bytes_to_uint64(bytes) ==
    Seq8([i \in 1..8 |-> IF i <= Len(bytes) THEN bytes[i] ELSE 0])

(***************************************************************************)
(* crc32c.rs                                                               *)
(***************************************************************************)
\* j >> 1 on a u32
ShiftRight1(j) ==
    Seq4([i \in 1..4 |->
            (j[i] \div 2) + (IF i < 4 THEN (j[i + 1] % 2) * 128 ELSE 0)])

\* 0x82f63b78
CRC32C_POLY == << \h78, \h3b, \hf6, \h82 >>

RECURSIVE crc_table_step(_, _)
crc_table_step(j, k) ==
    IF k = 8 THEN j
    ELSE crc_table_step(
             IF j[1] % 2 # 0 THEN XorBytes(ShiftRight1(j), CRC32C_POLY)
             ELSE ShiftRight1(j),
             k + 1)

CRC32C_TABLE == [i \in 0..255 |-> crc_table_step(<<i, 0, 0, 0>>, 0)]

\* Crc32c::new
Crc32cNew == <<255, 255, 255, 255>>

\* Crc32c::update: value = TABLE[(value ^ byte) & 0xff] ^ (value >> 8)
crc_update(value, byte) ==
    XorBytes(CRC32C_TABLE[Xor8[value[1]][byte]],
             <<value[2], value[3], value[4], 0>>)

\* the loop of update_slice over data[lo..hi], split in halves to keep the
\* evaluation shallow
RECURSIVE crc_update_range(_, _, _, _)
crc_update_range(value, data, lo, hi) ==
    IF lo > hi THEN value
    ELSE IF lo = hi THEN crc_update(value, data[lo])
    ELSE LET mid == (lo + hi) \div 2
             left == crc_update_range(value, data, lo, mid)
         IN  After(left, crc_update_range(left, data, mid + 1, hi))

\* Crc32c::update_slice
update_slice(value, data) == crc_update_range(value, data, 1, Len(data))

\* Crc32c::finalize: !value
finalize(value) == Seq4([i \in 1..4 |-> 255 - value[i]])

(***************************************************************************)
(* process.rs: result codes, files and handles                             *)
(***************************************************************************)
PHNX_OK == 0

PHNX_IO_ERROR == 1

PHNX_WRONG_PASSWORD == 2

PHNX_UNCORRECTABLE_ERROR == 3

PHNX_FORMAT_ERROR == 4

\* Option<File>: None, or an open file with its position
NoHandle == [open |-> FALSE, name |-> <<>>, pos |-> 0]

Handle(name, pos) == [open |-> TRUE, name |-> name, pos |-> pos]

Min(a, b) == IF a <= b THEN a ELSE b

\* the number whose bit k is b[k], for k below n
RECURSIVE FromBits(_, _)
FromBits(b, n) ==
    IF n = 0 THEN 0 ELSE FromBits(b, n - 1) + b[n - 1] * (2 ^ (n - 1))

\* x & (1 << j) != 0 for the i32 that decode returns (-1 has every bit set)
BitOfI32(x, j) == IF x < 0 THEN 1 ELSE BitOf(x, j)

\* s, made an explicit sequence
Eager(s) == SubSeq(s, 1, Len(s))

\* the concatenation of the sequences ss[lo..hi]
RECURSIVE Concat(_, _, _)
Concat(ss, lo, hi) ==
    IF lo > hi THEN <<>>
    ELSE IF lo = hi THEN ss[lo]
    ELSE LET mid == (lo + hi) \div 2
         IN  Concat(ss, lo, mid) \o Concat(ss, mid + 1, hi)

(***************************************************************************)
(* process.rs: the bit-plane transpose (the paths without BMI2; the BMI2   *)
(* paths extract and deposit the same bits with pext and pdep)             *)
(***************************************************************************)
\* mutant of plane_of_block: the planes are taken from the top bit down
plane_of_block_from_top(twelvebytes, i) ==
    FromBits([j \in 0..11 |-> BitOf(twelvebytes[j + 1], 7 - i)], 12)

\* golay_encode_and_write, one block: val |= 1 << j when bit i of byte j is set
plane_of_block(twelvebytes, i) ==
    FromBits([j \in 0..11 |-> BitOf(twelvebytes[j + 1], i)], 12)

\* golay_encode_and_write, one block: the 24 bytes of the eight triplets
encode_block(twelvebytes) ==
    LET codeword == [i \in 0..7 |-> encode(plane_of_block(twelvebytes, i))]
        cw == <<codeword[0], codeword[1], codeword[2], codeword[3],
                codeword[4], codeword[5], codeword[6], codeword[7]>>
    IN  Eager([n \in 1..24 |->
                  FromBits([i \in 0..7 |-> BitOf(cw[i + 1], n - 1)], 8)])

\* golay_read_and_decode, one block: cw |= 1 << (k*3+t) when bit i of
\* eighttriplets[k*3+t] is set
codeword_of_triplets(eighttriplets, i) ==
    FromBits([n \in 0..23 |-> BitOf(eighttriplets[n + 1], i)], 24)

\* the eight gc.decode calls of one block, in the order i = 0..7: the values
\* returned (xs) and the codec afterwards
RECURSIVE decode_planes(_, _, _, _)
decode_planes_next(eighttriplets, i, xs, r) ==
    After(r, decode_planes(eighttriplets, i + 1, Append(xs, r.z), r.gc))

decode_planes(eighttriplets, i, xs, gc) ==
    IF i = 8 THEN [xs |-> xs, gc |-> gc]
    ELSE decode_planes_next(eighttriplets, i, xs,
                            decode(gc, codeword_of_triplets(eighttriplets, i)))

\* twelvebytes[j] |= 1 << i when bit j of the i-th decoded word is set
twelvebytes_of(d) ==
    [twelvebytes |->
        Eager([j \in 1..12 |->
                  FromBits([i \in 0..7 |-> BitOfI32(d.xs[i + 1], j - 1)], 8)]),
     xs |-> d.xs,
     gc |-> d.gc]

\* golay_read_and_decode, one block
decode_block(eighttriplets, gc) ==
    twelvebytes_of(decode_planes(eighttriplets, 0, <<>>, gc))

\* mutant of block_count: a last block that is not full is left out
block_count_floor(data_size) == data_size \div 12

\* the passes of `while block_offset < data_size` with block_offset += 12
block_count(data_size) == (data_size + 11) \div 12

\* the 3 bytes read from slice i for one block: zeros for an absent slice
\* (f.read_exact fails when fewer than 3 bytes are left)
triplet_readable(files, h) ==
    (~h.open) \/ (h.pos + 3 <= Len(files[h.name]))

\* mutant of triplet_of: an absent slice reads as ones
triplet_of_ones(files, h) ==
    IF h.open THEN SubSeq(files[h.name], h.pos + 1, h.pos + 3)
    ELSE <<255, 255, 255>>

triplet_of(files, h) ==
    IF h.open THEN SubSeq(files[h.name], h.pos + 1, h.pos + 3)
    ELSE <<0, 0, 0>>

\* lines 124..134 of a block decoded as d: the copy into the buffer
block_copied(st, block_offset, buffer_len, d) ==
    [ret |-> PHNX_OK,
     buffer |-> st.buffer
                  \o SubSeq(d.twelvebytes, 1,
                            Min(block_offset + 12, buffer_len) - block_offset),
     slices |-> Eager([i \in 1..8 |->
                          IF st.slices[i].open
                          THEN Handle(st.slices[i].name, st.slices[i].pos + 3)
                          ELSE st.slices[i]]),
     gc |-> d.gc]

\* one pass of the loop of golay_read_and_decode, lines 20..135; st is the
\* buffer written so far, the slices, the codec and what the call returned
\* if it has returned
read_and_decode_block(st, block_offset, buffer_len, files) ==
    IF st.ret # PHNX_OK THEN st
    ELSE IF \E i \in 1..8 : ~triplet_readable(files, st.slices[i])
    THEN [st EXCEPT !.ret = PHNX_IO_ERROR]
    ELSE block_copied(
             st, block_offset, buffer_len,
             decode_block(
                 Concat([i \in 1..8 |-> triplet_of(files, st.slices[i])], 1, 8),
                 st.gc))

\* the passes for the blocks lo..hi-1 in their order, the range halved so
\* that the evaluation nests to the logarithm of the number of blocks
RECURSIVE read_and_decode_loop(_, _, _, _, _)
read_and_decode_rest(mid, hi, left, buffer_len, files) ==
    After(left, read_and_decode_loop(mid, hi, left, buffer_len, files))

read_and_decode_loop(lo, hi, st, buffer_len, files) ==
    IF lo >= hi THEN st
    ELSE IF hi - lo = 1
    THEN read_and_decode_block(st, 12 * lo, buffer_len, files)
    ELSE read_and_decode_rest(
             (lo + hi) \div 2, hi,
             read_and_decode_loop(lo, (lo + hi) \div 2, st, buffer_len, files),
             buffer_len, files)

\* golay_read_and_decode(buffer, bytes_to_read, slices, gc): buffer holds what
\* the call wrote from index 0 on
golay_read_and_decode(buffer_len, bytes_to_read, files, slices, gc) ==
    read_and_decode_loop(
        0, block_count(bytes_to_read),
        [ret |-> PHNX_OK, buffer |-> <<>>, slices |-> slices, gc |-> gc],
        buffer_len, files)

\* the 12 bytes of the block at block_offset, padded with zeroes
padded_block(data, data_size, block_offset) ==
    LET copy_size == Min(12, data_size - block_offset)
    IN  Eager([j \in 1..12 |->
                  IF j <= copy_size THEN data[block_offset + j] ELSE 0])

\* golay_encode_and_write(data, data_size, slices, gc): the bytes appended to
\* each of the eight slices (all eight are open when it is called, and encode
\* leaves the counters of gc alone)
golay_encode_and_write(data, data_size) ==
    LET blocks == block_count(data_size)
        triplets == Eager([b \in 1..blocks |->
                        encode_block(padded_block(data, data_size, 12 * (b - 1)))])
    IN  Eager([k \in 1..8 |->
                  Concat([b \in 1..blocks |->
                             SubSeq(triplets[b], 3 * (k - 1) + 1, 3 * k)],
                         1, blocks)])

(***************************************************************************)
(* process.rs: file names.  A name is a sequence of one-character strings. *)
(***************************************************************************)
PHNX_SUFFIX == <<".", "p", "h", "n", "x", "_">>

ENCRYPTED_SUFFIX == <<".", "e", "n", "c", "r", "y", "p", "t", "e", "d">>

ENCRYPTED_DASH == ENCRYPTED_SUFFIX \o <<"-">>

SLICE_LETTERS == <<"A", "B", "C", "D", "E", "F", "G", "H">>

HEX_DIGITS ==
    <<"0", "1", "2", "3", "4", "5", "6", "7", "8", "9",
      "a", "b", "c", "d", "e", "f", "A", "B", "C", "D", "E", "F">>

\* str::ends_with / starts_with
EndsWith(name, suffix) ==
    /\ Len(name) >= Len(suffix)
    /\ SubSeq(name, Len(name) - Len(suffix) + 1, Len(name)) = suffix

StartsWith(name, prefix) ==
    /\ Len(name) >= Len(prefix)
    /\ SubSeq(name, 1, Len(prefix)) = prefix

\* the name with its last character replaced by the letter of slice i (0..7)
WithLastLetter(name, i) ==
    SubSeq(name, 1, Len(name) - 1) \o <<SLICE_LETTERS[i + 1]>>

\* .phnx_[A-H]: the test of lines 285..291
IsSliceName(filename) ==
    /\ Len(filename) - 1 >= 6
    /\ LET suffix == SubSeq(filename, Len(filename) - 6, Len(filename))
       IN  /\ StartsWith(suffix, PHNX_SUFFIX)
           /\ \E i \in 1..8 : suffix[7] = SLICE_LETTERS[i]

\* char::is_ascii_hexdigit
IsHexDigit(c) == \E d \in 1..22 : HEX_DIGITS[d] = c

HexValue(c) ==
    LET d == CHOOSE d \in 1..22 : HEX_DIGITS[d] = c
    IN  IF d <= 16 THEN d - 1 ELSE d - 7

\* the digits without their leading zeroes
RECURSIVE StripZeroes(_)
StripZeroes(digits) ==
    IF digits # <<>> /\ digits[1] = 0 THEN StripZeroes(Tail(digits))
    ELSE digits

\* u32::from_str_radix(hex_part, 16) of a string of hex digits: Err on overflow
HexParses(hex_part) ==
    Len(StripZeroes([i \in 1..Len(hex_part) |-> HexValue(hex_part[i])])) <= 8

\* the u32 parsed, as 4 little-endian bytes
HexParsed(hex_part) ==
    LET digits == StripZeroes([i \in 1..Len(hex_part) |-> HexValue(hex_part[i])])
        padded == [i \in 1..8 |->
                      IF i <= 8 - Len(digits) THEN 0
                      ELSE digits[i - (8 - Len(digits))]]
    IN  << padded[7] * 16 + padded[8], padded[5] * 16 + padded[6],
           padded[3] * 16 + padded[4], padded[1] * 16 + padded[2] >>

\* the byte offsets at which ".encrypted-" occurs in the name
DashPositions(filename) ==
    {q \in 0..(Len(filename) - Len(ENCRYPTED_DASH)) :
        SubSeq(filename, q + 1, q + Len(ENCRYPTED_DASH)) = ENCRYPTED_DASH}

\* str::rfind: the last of them
RFind(filename) ==
    CHOOSE q \in DashPositions(filename) :
        \A r \in DashPositions(filename) : r <= q

(***************************************************************************)
(* process.rs: the CTR keystream                                           *)
(***************************************************************************)
ChunkUnits == 1

\* the buffer of the streaming loop.  The source sizes it 16 * 4 * 12 * 100;
\* the model keeps the unit of 64-byte batches and 12-byte blocks and scales
\* the number of units
BUFFER_LEN == 16 * 4 * 12 * ChunkUnits

KS_ORDER == <<0, 4, 1, 5, 2, 6, 3, 7>>

\* mutant of advance_counters: the counters go up by one
advance_counters_by_one(nac) ==
    << nac[1], nac[2], nac[3], nac[4],
       WrappingAdd(nac[5], U64(1)), WrappingAdd(nac[6], U64(1)),
       WrappingAdd(nac[7], U64(1)), WrappingAdd(nac[8], U64(1)) >>

\* nonce_and_counter[4..8] += 4
advance_counters(nac) ==
    << nac[1], nac[2], nac[3], nac[4],
       WrappingAdd(nac[5], U64(4)), WrappingAdd(nac[6], U64(4)),
       WrappingAdd(nac[7], U64(4)), WrappingAdd(nac[8], U64(4)) >>

\* the 64 bytes a batch XORs into the buffer: (keystream[ks_idx] >> (i * 8))
\* as u8 at offset + block_idx * 8 + i
batch_bytes(keystream) ==
    Concat([block_idx \in 1..8 |-> keystream[KS_ORDER[block_idx] + 1]], 1, 8)

\* one pass of the CTR loop, lines 581..598: st is the part of the buffer
\* done so far and the counter register
ctr_batch(st, offset, buffer, chunk_size, schedule) ==
    [buffer |->
        st.buffer
          \o XorBytes(SubSeq(buffer, offset + 1,
                             offset + Min(64, chunk_size - offset)),
                      SubSeq(batch_bytes(speck_encrypt4(st.nonce_and_counter,
                                                        schedule)),
                             1, Min(64, chunk_size - offset))),
     nonce_and_counter |-> advance_counters(st.nonce_and_counter)]

\* the passes for the batches lo..hi-1 in their order, the range halved so
\* that the evaluation nests to the logarithm of the number of batches
RECURSIVE ctr_loop(_, _, _, _, _, _)
ctr_rest(mid, hi, left, buffer, chunk_size, schedule) ==
    After(left, ctr_loop(mid, hi, left, buffer, chunk_size, schedule))

ctr_loop(lo, hi, st, buffer, chunk_size, schedule) ==
    IF lo >= hi THEN st
    ELSE IF hi - lo = 1
    THEN ctr_batch(st, 64 * lo, buffer, chunk_size, schedule)
    ELSE ctr_rest((lo + hi) \div 2, hi,
                  ctr_loop(lo, (lo + hi) \div 2, st, buffer, chunk_size,
                           schedule),
                  buffer, chunk_size, schedule)

\* lines 579..599: the buffer and the counter register afterwards
ctr_chunk(buffer, chunk_size, nac, schedule) ==
    ctr_loop(0, (chunk_size + 63) \div 64,
             [buffer |-> <<>>, nonce_and_counter |-> nac],
             buffer, chunk_size, schedule)

(***************************************************************************)
(* main.rs: the key schedule of a password                                 *)
(***************************************************************************)
NumKeys == 2

\* "hello", "correct horse battery staple", "phnx"
PASSWORDS ==
    << <<104, 101, 108, 108, 111>>,
       <<99, 111, 114, 114, 101, 99, 116, 32, 104, 111, 114, 115, 101, 32,
         98, 97, 116, 116, 101, 114, 121, 32, 115, 116, 97, 112, 108, 101>>,
       <<112, 104, 110, 120>>,
       <<107, 101, 121>> >>

\* main.rs 100..109: four little-endian words of the first 32 bytes
key_of_password(pw) ==
    Eager([i \in 1..4 |->
              bytes_to_uint64(SubSeq(pw, Min(8 * (i - 1), Len(pw)) + 1,
                                     Min(8 * i, Len(pw))))])

SCHEDULES ==
    Eager([k \in 1..Len(PASSWORDS) |->
              speck_schedule(key_of_password(PASSWORDS[k]))])

(***************************************************************************)
(* process.rs: process_one_file, in four steps                             *)
(*   start   lines 262..358  the role of the file name, opening the slices *)
(*   open    lines 360..549  trailer, input and output files, the nonce    *)
(*   chunk   lines 551..631  one pass of the streaming loop                *)
(*   finish  lines 633..772  trailers, verification, rename                *)
(* Each step yields the locals and the files afterwards, and whether the   *)
(* function returned in it.                                                *)
(***************************************************************************)
ZERO32 == <<0, 0, 0, 0>>

\* the locals as declared in lines 262..273 and further down.  length and
\* remaining_length are numbers (see I64); length_bytes is length in full
InitialLocals ==
    [filename |-> <<>>, key |-> 1,
     check_checksum |-> FALSE, expected_checksum |-> ZERO32,
     check_crc32c |-> FALSE, expected_crc32c |-> ZERO32,
     append_suffix |-> TRUE, nonce |-> U64(0),
     golay_encode |-> TRUE, golay_decode |-> FALSE,
     slices |-> <<NoHandle, NoHandle, NoHandle, NoHandle,
                  NoHandle, NoHandle, NoHandle, NoHandle>>,
     length |-> 0, remaining_length |-> 0, length_bytes |-> U64(0),
     total_notches |-> 10, notches_shown |-> 0, gc |-> GolayCodeNew,
     hex_suffix_rename_end |-> 0, f |-> NoHandle,
     nonce_and_counter |-> <<U64(0), U64(0), U64(0), U64(0),
                             U64(0), U64(1), U64(2), U64(3)>>,
     crc32c_before |-> Crc32cNew, crc32c_after |-> Crc32cNew,
     halves |-> <<ZERO32, ZERO32>>, trailer_read |-> FALSE]

Outcome(returned, code, l, files, reads, touched) ==
    [returned |-> returned, ret |-> code, loc |-> l, fs |-> files,
     reads |-> reads, touched |-> touched]

\* the slices that File::open finds, lines 293..312
opened_slices(filename, files) ==
    Eager([i \in 1..8 |->
              IF WithLastLetter(filename, i - 1) \in DOMAIN files
              THEN Handle(WithLastLetter(filename, i - 1), 0)
              ELSE NoHandle])

\* the hex tail of a name holding ".encrypted-", lines 345..346
hex_part_of(filename) ==
    SubSeq(filename, RFind(filename) + Len(ENCRYPTED_DASH) + 1, Len(filename))

\* lines 337..357: the name is a checksum-tagged one
is_tagged(filename) ==
    /\ Len(filename) - 1 >= 9
    /\ ~EndsWith(filename, ENCRYPTED_SUFFIX)
    /\ DashPositions(filename) # {}
    /\ hex_part_of(filename) # <<>>
    /\ \A i \in 1..Len(hex_part_of(filename)) :
          IsHexDigit(hex_part_of(filename)[i])
    /\ HexParses(hex_part_of(filename))

\* mutant of too_many_missing: a single missing slice is refused
any_missing(missing_ct) == missing_ct > 0

\* mutant of too_many_missing: two missing slices are let through
three_missing(missing_ct) == missing_ct > 2

\* lines 301..309: File::open fails with missing_ct > 0 already
too_many_missing(missing_ct) == missing_ct > 1

\* lines 262..358
start(filename, compatibility_mode, key, files) ==
    LET l0 == [InitialLocals EXCEPT !.filename = filename, !.key = key,
                                    !.golay_encode = ~compatibility_mode]
        golay_decode == IsSliceName(filename)
        slices == opened_slices(filename, files)
        missing_ct == Cardinality({i \in 1..8 : ~slices[i].open})
        encrypted == /\ ~golay_decode
                     /\ Len(filename) - 1 >= 9
                     /\ EndsWith(filename, ENCRYPTED_SUFFIX)
        tagged == ~golay_decode /\ is_tagged(filename)
    IN  IF filename = <<>>
        THEN Outcome(TRUE, PHNX_IO_ERROR, l0, files, 0, {})
        ELSE IF golay_decode /\ too_many_missing(missing_ct)
        THEN Outcome(TRUE, PHNX_UNCORRECTABLE_ERROR, l0, files, 0, {})
        ELSE IF golay_decode
        THEN Outcome(FALSE, PHNX_OK,
                     [l0 EXCEPT !.slices = slices, !.golay_decode = TRUE,
                                !.golay_encode = FALSE, !.check_crc32c = TRUE,
                                !.append_suffix = FALSE],
                     files, 0, {})
        ELSE IF encrypted
        THEN Outcome(FALSE, PHNX_OK,
                     [l0 EXCEPT !.check_crc32c = TRUE, !.append_suffix = FALSE,
                                !.golay_encode = FALSE],
                     files, 0, {})
        ELSE IF tagged
        THEN Outcome(FALSE, PHNX_OK,
                     [l0 EXCEPT !.expected_checksum =
                                    HexParsed(hex_part_of(filename)),
                                !.check_checksum = TRUE,
                                !.append_suffix = FALSE,
                                !.golay_encode = FALSE,
                                !.hex_suffix_rename_end = RFind(filename)],
                     files, 0, {})
        ELSE Outcome(FALSE, PHNX_OK, l0, files, 0, {})

\* a trailer word as the i64 length.  A negative value is kept as -1 and a
\* value of 2^31 or more as 2^31 - 1: the loop tests only its sign and
\* compares it with the buffer length
I64(w) ==
    IF w[8] >= 128 THEN -1
    ELSE IF w[5] # 0 \/ w[6] # 0 \/ w[7] # 0 \/ w[8] # 0 \/ w[4] >= 128
    THEN 2147483647
    ELSE w[1] + 256 * w[2] + 65536 * w[3] + 16777216 * w[4]

Low32(w) == SubSeq(w, 1, 4)

High32(w) == SubSeq(w, 5, 8)

\* speck_encrypt of (nonce, counter) = (-1, -1) and (-1, -2)
gamma_m1(schedule) == speck_encrypt(<<AllOnes64, AllOnes64>>, schedule)

gamma_m2(schedule) == speck_encrypt(<<AllOnes64, MinusTwo64>>, schedule)

\* the register of line 529
counter_register(nonce) ==
    <<nonce, nonce, nonce, nonce, U64(0), U64(1), U64(2), U64(3)>>

\* File::create: the file exists and is empty afterwards
Created(files, name) ==
    [n \in DOMAIN files \cup {name} |-> IF n = name THEN <<>> ELSE files[n]]

\* the name of slice i (0..7) of an encode run, lines 538..540
slice_filename(filename, i) ==
    filename \o PHNX_SUFFIX \o <<SLICE_LETTERS[i + 1]>>

\* mutant of halves_differ: the two halves are not compared
halves_unchecked(s0) == FALSE

\* lines 401..403 and 484..486: crc32c0 != crc32c1
halves_differ(s0) == Low32(s0) # High32(s0)

\* lines 386..421 and 529..534: the trailer read as r, decrypted with gamma1
\* and gamma2
open_decode_suffix(l, files, r, reads, gamma1, gamma2) ==
    LET s0 == Xor64(SubSeq(r.buffer, 1, 8), gamma1[1])
        s1 == Xor64(SubSeq(r.buffer, 9, 16), gamma1[2])
        s2 == Xor64(SubSeq(r.buffer, 17, 24), gamma2[1])
        l1 == [l EXCEPT !.gc = r.gc, !.halves = <<Low32(s0), High32(s0)>>,
                        !.trailer_read = TRUE]
        base_filename == SubSeq(l.filename, 1, Len(l.filename) - 7)
    IN  IF halves_differ(s0)
        THEN Outcome(TRUE, PHNX_WRONG_PASSWORD, l1, files, reads, {})
        ELSE IF base_filename = <<>>
        THEN Outcome(TRUE, PHNX_IO_ERROR, l1, files, reads, {})
        ELSE Outcome(FALSE, PHNX_OK,
                     [l1 EXCEPT !.check_crc32c = TRUE,
                                !.expected_crc32c = Low32(s0),
                                !.nonce = s1,
                                !.length = I64(s2),
                                !.remaining_length = I64(s2),
                                !.length_bytes = s2,
                                !.f = Handle(base_filename, 0),
                                !.nonce_and_counter = counter_register(s1)],
                     Created(files, base_filename),
                     reads, {base_filename})

\* lines 374..377
open_decode_read(l, files, r, reads) ==
    After(r,
          IF r.ret # PHNX_OK
          THEN Outcome(TRUE, r.ret, [l EXCEPT !.gc = r.gc], files, reads, {})
          ELSE open_decode_suffix(l, files, r, reads,
                                  gamma_m1(SCHEDULES[l.key]),
                                  gamma_m2(SCHEDULES[l.key])))

\* the slices, each open one at End(-6), lines 365..372
slices_at_end(l, files) ==
    Eager([i \in 1..8 |->
              IF l.slices[i].open
              THEN Handle(l.slices[i].name, Len(files[l.slices[i].name]) - 6)
              ELSE NoHandle])

\* lines 363..421 and 529..534: decode mode
open_decode(l, files) ==
    IF \E i \in 1..8 : l.slices[i].open /\ Len(files[l.slices[i].name]) < 6
    THEN Outcome(TRUE, PHNX_IO_ERROR, l, files, 0, {})
    ELSE open_decode_read(
             l, files,
             golay_read_and_decode(24, 24, files, slices_at_end(l, files), l.gc),
             2 * Cardinality({i \in 1..8 : l.slices[i].open}))

\* lines 475..493: the trailer decrypted with gamma
open_encrypted_suffix(l1, files, suffix_buf, gamma) ==
    LET s0 == Xor64(SubSeq(suffix_buf, 1, 8), gamma[1])
        s1 == Xor64(SubSeq(suffix_buf, 9, 16), gamma[2])
        l2 == [l1 EXCEPT !.halves = <<Low32(s0), High32(s0)>>,
                         !.trailer_read = TRUE]
    IN  IF halves_differ(s0)
        THEN Outcome(TRUE, PHNX_WRONG_PASSWORD, l2, files, 0, {})
        ELSE Outcome(FALSE, PHNX_OK,
                     [l2 EXCEPT !.expected_crc32c = Low32(s0),
                                !.nonce = s1,
                                !.remaining_length = l1.length - 16,
                                !.nonce_and_counter = counter_register(s1)],
                     files, 0, {})

\* lines 441..493: the 16-byte trailer of a .encrypted file
open_encrypted(l, files) ==
    LET length == Len(files[l.filename])
        l1 == [l EXCEPT !.length = length, !.remaining_length = length,
                        !.length_bytes = U64(length),
                        !.nonce = U64(length), !.f = Handle(l.filename, 0)]
    IN  IF length < 16
        THEN Outcome(TRUE, PHNX_FORMAT_ERROR, l1, files, 0, {})
        ELSE open_encrypted_suffix(
                 l1, files, SubSeq(files[l.filename], length - 15, length),
                 gamma_m1(SCHEDULES[l.key]))

\* File::create of the eight slices, lines 536..549
RECURSIVE create_slices(_, _, _)
create_slices(files, filename, i) ==
    IF i = 8 THEN files
    ELSE create_slices(Created(files, slice_filename(filename, i)),
                       filename, i + 1)

\* lines 423..454 and 496..549: the plain input of the two encrypting modes
\* and of checksum verify; random_number is the value of lines 497..508
open_plain(l, files, random_number) ==
    LET length == Len(files[l.filename])
        nonce == IF l.append_suffix \/ l.golay_encode
                 THEN Xor64(U64(length), random_number)
                 ELSE U64(length)
        l1 == [l EXCEPT !.length = length, !.remaining_length = length,
                        !.length_bytes = U64(length),
                        !.nonce = nonce, !.f = Handle(l.filename, 0),
                        !.nonce_and_counter = counter_register(nonce)]
        l2 == [l1 EXCEPT !.slices =
                   Eager([i \in 1..8 |->
                             Handle(slice_filename(l.filename, i - 1), 0)])]
    IN  IF l.golay_encode
        THEN Outcome(FALSE, PHNX_OK, l2,
                     create_slices(files, l.filename, 0), 0,
                     {slice_filename(l.filename, i) : i \in 0..7})
        ELSE Outcome(FALSE, PHNX_OK, l1, files, 0, {})

\* lines 360..511 and 529..549
open_files(l, files, random_number) ==
    IF l.golay_decode THEN open_decode(l, files)
    ELSE IF l.filename \notin DOMAIN files
    THEN Outcome(TRUE, PHNX_IO_ERROR, l, files, 0, {})
    ELSE IF l.check_crc32c THEN open_encrypted(l, files)
    ELSE open_plain(l, files, random_number)

\* the number of passes of `while x > 0 { x >>= 1; }` for an i64 x
shifts_to_zero(x) ==
    IF ~Positive(x) THEN 0
    ELSE LET k == CHOOSE k \in 1..8 : x[k] # 0 /\ \A j \in (k + 1)..8 : x[j] = 0
         IN  8 * (k - 1)
               + (CHOOSE n \in 1..8 : x[k] < 2 ^ n /\ x[k] >= 2 ^ (n - 1))

\* lines 514..521
total_notches_of(remaining_length) == 10 + shifts_to_zero(remaining_length)

\* remaining_length in full at line 516: the trailer word in decode mode,
\* the length of a file otherwise
remaining_bytes(l) ==
    IF l.golay_decode THEN l.length_bytes ELSE U64(l.remaining_length)

\* lines 513..527
progress_bar(o) ==
    IF o.returned THEN o
    ELSE [o EXCEPT !.loc.total_notches = total_notches_of(remaining_bytes(o.loc)),
                   !.loc.notches_shown = 0]

\* lines 360..549
open(l, files, random_number) ==
    progress_bar(open_files(l, files, random_number))

\* mutant of WrittenAt: the bytes stay in the buffer
kept_in_buffer(content, pos, bytes) ==
    IF pos + Len(bytes) >= 0 THEN content ELSE content

\* write_all at position pos: the content afterwards
WrittenAt(content, pos, bytes) ==
    SubSeq(content, 1, pos) \o bytes
        \o SubSeq(content, pos + Len(bytes) + 1, Len(content))

\* the files after write_all of 3-byte groups to the eight slices
AppendedToSlices(files, slices, added) ==
    [n \in DOMAIN files |->
        IF \E k \in 1..8 : slices[k].name = n
        THEN LET k == CHOOSE k \in 1..8 : slices[k].name = n
             IN  WrittenAt(files[n], slices[k].pos, added[k])
        ELSE files[n]]

AdvancedSlices(slices, added) ==
    Eager([k \in 1..8 |-> Handle(slices[k].name, slices[k].pos + Len(added[k]))])

\* the number of 3-byte reads between two states of the slice handles
ReadsBetween(before, after) ==
    LET n == [k \in 1..8 |-> (after[k].pos - before[k].pos) \div 3]
    IN  n[1] + n[2] + n[3] + n[4] + n[5] + n[6] + n[7] + n[8]

\* lines 553..573: what the pass reads, from the slices or from the file
chunk_input(l, files, chunk_size) ==
    IF l.golay_decode
    THEN golay_read_and_decode(BUFFER_LEN, chunk_size, files, l.slices, l.gc)
    ELSE IF l.f.pos + chunk_size <= Len(files[l.f.name])
    THEN [ret |-> PHNX_OK,
          buffer |-> SubSeq(files[l.f.name], l.f.pos + 1, l.f.pos + chunk_size),
          slices |-> l.slices, gc |-> l.gc]
    ELSE [ret |-> PHNX_IO_ERROR, buffer |-> <<>>, slices |-> l.slices,
          gc |-> l.gc]

\* mutant of chunk_encoded: the group of slice A goes to the input file too
chunk_encoded_over_input(l1, files, added) ==
    After(added,
          Outcome(FALSE, PHNX_OK,
                  [l1 EXCEPT !.slices = AdvancedSlices(l1.slices, added)],
                  [AppendedToSlices(files, l1.slices, added)
                       EXCEPT ![l1.filename] = WrittenAt(@, 0, added[1])],
                  0, {l1.slices[k].name : k \in 1..8}))

\* lines 604..609: the pass of encode mode writes `added` to the slices
chunk_encoded(l1, files, added) ==
    After(added,
          Outcome(FALSE, PHNX_OK,
                  [l1 EXCEPT !.slices = AdvancedSlices(l1.slices, added)],
                  AppendedToSlices(files, l1.slices, added),
                  0, {l1.slices[k].name : k \in 1..8}))

\* lines 601..618: the pass has encrypted the buffer as c
chunk_output(l, files, chunk_size, r, c, before) ==
    After(<<c, before>>,
        LET l1 == [l EXCEPT !.crc32c_before = before,
                            !.crc32c_after = update_slice(l.crc32c_after,
                                                          c.buffer),
                            !.nonce_and_counter = c.nonce_and_counter,
                            !.remaining_length = @ - chunk_size,
                            !.gc = r.gc, !.slices = r.slices,
                            !.f = Handle(l.f.name, l.f.pos + chunk_size)]
        IN  IF l.golay_encode
            THEN chunk_encoded(l1, files,
                               golay_encode_and_write(c.buffer, chunk_size))
            ELSE Outcome(FALSE, PHNX_OK, l1,
                         [files EXCEPT ![l.f.name] =
                             WrittenAt(@, l.f.pos, c.buffer)],
                         ReadsBetween(l.slices, r.slices), {l.f.name}))

\* lines 555..599: the pass has read r
chunk_crypt(l, files, chunk_size, r) ==
    After(r,
        IF r.ret # PHNX_OK
        THEN Outcome(TRUE, r.ret, [l EXCEPT !.gc = r.gc, !.slices = r.slices],
                     files, ReadsBetween(l.slices, r.slices), {})
        ELSE chunk_output(l, files, chunk_size, r,
                          ctr_chunk(SubSeq(r.buffer, 1, chunk_size), chunk_size,
                                    l.nonce_and_counter, SCHEDULES[l.key]),
                          update_slice(l.crc32c_before,
                                       SubSeq(r.buffer, 1, chunk_size))))

\* lines 551..618, one pass of the loop up to the progress display
chunk_done(l, files) ==
    chunk_crypt(l, files, Min(l.remaining_length, BUFFER_LEN),
                chunk_input(l, files, Min(l.remaining_length, BUFFER_LEN)))

\* the process was ended by a panic: no code was returned
Panicked == -1

\* min(wrapped / divisor, total_notches) on u32, for a divisor that is not 0
capped_quotient(wrapped, divisor, total_notches) ==
    CHOOSE q \in 0..total_notches :
        /\ ~Less(wrapped \o <<0>>, Times(divisor, q))
        /\ q < total_notches => Less(wrapped \o <<0>>, Times(divisor, q + 1))

\* lines 624..630: notches_shown afterwards
notches_after(total_notches, notches_shown, notches_remaining) ==
    IF total_notches - notches_shown > notches_remaining
    THEN total_notches - notches_remaining
    ELSE notches_shown

\* lines 622..630, for product = done as u32 * total_notches in full and
\* divisor = length as u32.  The product that does not fit 32 bits panics in
\* a build with overflow checks and wraps in one without; the divisor 0
\* panics in every build.
notches_divided(product, divisor, total_notches, notches_shown, checked) ==
    IF product[5] # 0 /\ checked
    THEN [panicked |-> TRUE, notches_shown |-> notches_shown]
    ELSE IF divisor = <<0, 0, 0, 0>>
    THEN [panicked |-> TRUE, notches_shown |-> notches_shown]
    ELSE [panicked |-> FALSE,
          notches_shown |->
              notches_after(total_notches, notches_shown,
                            total_notches
                              - capped_quotient(SubSeq(product, 1, 4), divisor,
                                                total_notches))]

\* lines 620..630: done as u32 * total_notches / length as u32
update_progress(length, done, total_notches, notches_shown, checked) ==
    notches_divided(Times(SubSeq(done, 1, 4), total_notches),
                    SubSeq(length, 1, 4),
                    total_notches, notches_shown, checked)

\* the pass with outcome o has shown p
chunk_shown(o, p) ==
    IF p.panicked
    THEN [o EXCEPT !.returned = TRUE, !.ret = Panicked]
    ELSE [o EXCEPT !.loc.notches_shown = p.notches_shown]

\* lines 618..630 after a pass with outcome o
chunk_progress(o, checked) ==
    IF o.returned THEN o
    ELSE chunk_shown(o, update_progress(
                            o.loc.length_bytes,
                            U64(o.loc.length - o.loc.remaining_length),
                            o.loc.total_notches, o.loc.notches_shown,
                            checked))

\* lines 551..631, one pass of the loop
chunk(l, files, checked) ==
    chunk_progress(chunk_done(l, files), checked)

\* fs::rename: the files afterwards (the target is replaced when it exists)
Renamed(files, from, to) ==
    [n \in (DOMAIN files \ {from}) \cup {to} |->
        IF n = to THEN files[from] ELSE files[n]]

\* lines 643..673: the trailer of encode mode, encrypted with gamma1, gamma2
finish_encode_suffix(l, files, gamma1, gamma2) ==
    Xor64(finalize(l.crc32c_before) \o finalize(l.crc32c_before), gamma1[1])
        \o Xor64(l.nonce, gamma1[2])
        \o Xor64(U64(l.length), gamma2[1])

finish_encode_written(l, files, added) ==
    After(added,
          Outcome(TRUE, PHNX_OK,
                  [l EXCEPT !.slices = Eager([k \in 1..8 |-> NoHandle])],
                  AppendedToSlices(files, l.slices, added),
                  0, {l.slices[k].name : k \in 1..8}))

finish_encode(l, files) ==
    finish_encode_written(
        l, files,
        golay_encode_and_write(
            finish_encode_suffix(l, files, gamma_m1(SCHEDULES[l.key]),
                                 gamma_m2(SCHEDULES[l.key])),
            24))

\* lines 674..699: the trailer of encrypt-in-place, and the rename
finish_encrypt_suffix(l, gamma) ==
    Xor64(finalize(l.crc32c_before) \o finalize(l.crc32c_before), gamma[1])
        \o Xor64(l.nonce, gamma[2])

finish_encrypt_written(l, files, suffix_bytes) ==
    Outcome(TRUE, PHNX_OK, [l EXCEPT !.f = NoHandle],
            Renamed([files EXCEPT ![l.filename] =
                        WrittenAt(@, l.f.pos, suffix_bytes)],
                    l.filename, l.filename \o ENCRYPTED_SUFFIX),
            0, {l.filename, l.filename \o ENCRYPTED_SUFFIX})

finish_encrypt(l, files) ==
    finish_encrypt_written(
        l, files, finish_encrypt_suffix(l, gamma_m1(SCHEDULES[l.key])))

\* lines 704..726: checksum verify
finish_verify(l, files) ==
    LET schedule == SCHEDULES[l.key]
        checksum_in == << finalize(l.crc32c_after) \o finalize(l.crc32c_before),
                          U64(l.length) >>
        checksum_out == speck_encrypt(checksum_in, schedule)
        checksum == Low32(checksum_out[1])
        new_filename == SubSeq(l.filename, 1, l.hex_suffix_rename_end)
        l1 == [l EXCEPT !.f = NoHandle]
    IN  IF checksum # l.expected_checksum
        THEN Outcome(TRUE, PHNX_FORMAT_ERROR, l1, files, 0, {})
        ELSE IF new_filename = <<>>
        THEN Outcome(TRUE, PHNX_IO_ERROR, l1, files, 0, {})
        ELSE Outcome(TRUE, PHNX_OK, l1,
                     Renamed(files, l.filename, new_filename),
                     0, {l.filename, new_filename})

\* set_len
Truncated(files, name, len) ==
    [files EXCEPT ![name] =
        IF len <= Len(@) THEN SubSeq(@, 1, len)
        ELSE @ \o [i \in 1..(len - Len(@)) |-> 0]]

\* lines 728..741: compatibility decrypt after the loop, up to fs::rename
finish_decrypt_renamed(l, files) ==
    LET new_filename == SubSeq(l.filename, 1, Len(l.filename) - 10)
        l1 == [l EXCEPT !.f = NoHandle]
    IN  IF l.expected_crc32c # finalize(l.crc32c_after)
        THEN Outcome(TRUE, PHNX_FORMAT_ERROR, l1, files, 0, {})
        ELSE IF new_filename = <<>>
        THEN Outcome(TRUE, PHNX_IO_ERROR, l1, files, 0, {})
        ELSE Outcome(FALSE, PHNX_OK, l1,
                     Renamed(files, l.filename, new_filename),
                     0, {l.filename, new_filename})

\* lines 742..757 and 771: the renamed file is opened and cut by set_len;
\* done tells whether both succeeded
finish_decrypt_truncated(l, files, done) ==
    LET new_filename == SubSeq(l.filename, 1, Len(l.filename) - 10)
    IN  IF ~done THEN Outcome(TRUE, PHNX_IO_ERROR, l, files, 0, {})
        ELSE Outcome(TRUE, PHNX_OK, l,
                     Truncated(files, new_filename, l.length - 16),
                     0, {new_filename})

\* lines 728..757: compatibility decrypt after the loop, with the file
\* opened and cut
finish_decrypt_cut(o) ==
    IF o.returned THEN o
    ELSE finish_decrypt_truncated(o.loc, o.fs, TRUE)

finish_decrypt(l, files) ==
    LET o == finish_decrypt_cut(finish_decrypt_renamed(l, files))
    IN  [o EXCEPT !.touched = @ \cup
                      (IF o.ret = PHNX_OK
                       THEN {l.filename,
                             SubSeq(l.filename, 1, Len(l.filename) - 10)}
                       ELSE {})]

\* lines 728..734 and 759..771: decode mode after the loop
finish_decode(l, files) ==
    LET l1 == [l EXCEPT !.f = NoHandle]
    IN  IF l.expected_crc32c # finalize(l.crc32c_after)
        THEN Outcome(TRUE, PHNX_FORMAT_ERROR, l1, files, 0, {})
        ELSE IF l.gc.uncorrectable_codewords # 0
        THEN Outcome(TRUE, PHNX_UNCORRECTABLE_ERROR, l1, files, 0, {})
        ELSE Outcome(TRUE, PHNX_OK, l1, files, 0, {})

\* lines 633..772
finish(l, files) ==
    IF l.golay_encode THEN finish_encode(l, files)
    ELSE IF l.append_suffix THEN finish_encrypt(l, files)
    ELSE IF l.check_checksum THEN finish_verify(l, files)
    ELSE IF l.golay_decode THEN finish_decode(l, files)
    ELSE finish_decrypt(l, files)

\* the role process_one_file gave the file
Mode(l) ==
    IF l.golay_decode THEN "decode"
    ELSE IF l.golay_encode THEN "encode"
    ELSE IF l.append_suffix THEN "encrypt"
    ELSE IF l.check_checksum THEN "verify"
    ELSE "decrypt"

(***************************************************************************)
(* The codec harness: one round of the loop body of golay.rs self_test     *)
(* (encode a word, flip distinct bits of the codeword, decode), repeated   *)
(* on one GolayCode object.                                                *)
(***************************************************************************)
NoResult == -2

\* no file and no call: the state of the file variables outside the file runs
NoFiles ==
    /\ fs = << >>
    /\ pc = "idle"
    /\ loc = InitialLocals
    /\ call = [filename |-> <<>>, compatibility_mode |-> FALSE, key |-> 1,
               before |-> << >>]
    /\ io = [reads |-> 0, touched |-> {}, chunks |-> 0]
    /\ hist = << >>
    /\ tamper = [by |-> "nothing", deleted |-> {}, flips |-> {}, group |-> 0]

\* the data words drawn by the harness
TestWords == {(k * 1365) % 4096 : k \in 0..(NumWords - 1)}

\* let mut gc = GolayCode::new()
HIdle ==
    /\ h_pc = "idle"
    /\ h_gc = GolayCodeNew
    /\ h_x = 0
    /\ h_y = 0
    /\ h_errors = 0
    /\ h_z = NoResult
    /\ h_before = GolayCodeNew

\* no call on a file known by its length only
NoBar ==
    [pc |-> "idle", mode |-> "none", length |-> U64(0),
     remaining_length |-> U64(0), total_notches |-> 10, notches_shown |-> 0,
     passes |-> 0]

\* main is not running
NoMain ==
    [pc |-> "none", args |-> << >>, i |-> 1, compatibility_mode |-> FALSE,
     last_error_code |-> PHNX_OK, ok_ct |-> 0, fail_ct |-> 0,
     exit_code |-> PHNX_OK]

\* no block under way
NoBlock ==
    [pc |-> "none", twelvebytes |-> << >>, written |-> << >>,
     files |-> << >>, missing |-> {}, flips |-> {}, read |-> << >>,
     r |-> << >>]

\* no buffer under way
NoCtr ==
    [pc |-> "none", key |-> 1, nonce |-> U64(0), data |-> << >>,
     done |-> << >>, nonce_and_counter |-> << >>, passes |-> 0]

\* the build is one with or one without overflow checks
Built ==
    /\ overflow_checks \in BOOLEAN
    /\ bar = NoBar
    /\ main = NoMain
    /\ blk = NoBlock
    /\ ctr = NoCtr

HInit == HIdle /\ NoFiles /\ Built

\* let y = gc.encode(x)
HEncode ==
    /\ h_pc = "idle"
    /\ h_gc.processed_codewords < MaxDecodes
    /\ \E x \in TestWords :
          /\ h_x' = x
          /\ h_y' = encode(x)
    /\ h_errors' = 0
    /\ h_z' = NoResult
    /\ h_pc' = "encoded"
    /\ h_before' = h_gc
    /\ UNCHANGED h_gc
    /\ UNCHANGED <<fvars, bvars>>

\* errors |= bit, for a bit not yet in errors (bits drawn in rising order)
HFlip ==
    /\ h_pc = "encoded"
    /\ count_ones(h_errors) < MaxFlips
    /\ \E b \in 0..23 :
          /\ 2 ^ b > h_errors
          /\ h_errors' = h_errors + 2 ^ b
    /\ UNCHANGED <<h_pc, h_gc, h_x, h_y, h_z, h_before>>
    /\ UNCHANGED <<fvars, bvars>>

\* let z = gc.decode(y ^ errors); line 39 panics in a build with overflow
\* checks when the counter is at its largest
HDecode ==
    /\ h_pc = "encoded"
    /\ IF overflow_checks /\ Overflows(h_gc.processed_codewords)
       THEN /\ h_pc' = "panicked"
            /\ UNCHANGED <<h_z, h_gc>>
       ELSE /\ LET r == decode(h_gc, BitXor(h_y, h_errors))
               IN  /\ h_z' = r.z
                   /\ h_gc' = r.gc
            /\ h_pc' = "idle"
    /\ h_before' = h_gc
    /\ UNCHANGED <<h_x, h_y, h_errors>>
    /\ UNCHANGED <<fvars, bvars>>

HNext == HEncode \/ HFlip \/ HDecode

SpecGolay == HInit /\ [][HNext]_vars

(***************************************************************************)
(* The codec harness on one GolayCode object that decodes several          *)
(* codewords, new or with processed_codewords close to the largest i32,    *)
(* as it is left by that many decode calls on codewords without error.     *)
(***************************************************************************)
MaxSequence == 3    \* decode calls on one object
NumFlipBits == 6    \* bit positions that may be flipped

\* bit positions of the data and of the checksum half
FlipBit24(n) == <<0, 5, 11, 12, 17, 23>>[((n - 1) % 6) + 1]

\* processed_codewords at the start
CounterStarts == {0, I32_MAX - (MaxSequence - 1)}

InitCounters ==
    /\ HIdle
    /\ NoFiles
    /\ Built

\* I32_MAX - (MaxSequence - 1) decode calls on codewords without error
HDecodeMany ==
    /\ h_pc = "idle"
    /\ h_gc = GolayCodeNew
    /\ h_gc' = [h_gc EXCEPT !.processed_codewords = I32_MAX - (MaxSequence - 1)]
    /\ h_before' = [h_gc EXCEPT !.processed_codewords = I32_MAX - MaxSequence]
    /\ h_z' = h_x
    /\ UNCHANGED <<h_pc, h_x, h_y, h_errors>>
    /\ UNCHANGED <<fvars, bvars>>

\* let y = gc.encode(x), for as long as the object has decode calls left
HEncodeNext ==
    /\ h_pc = "idle"
    /\ \E first \in CounterStarts :
          /\ first <= h_gc.processed_codewords
          /\ h_gc.processed_codewords - first < MaxSequence
    /\ \E x \in TestWords :
          /\ h_x' = x
          /\ h_y' = encode(x)
    /\ h_errors' = 0
    /\ h_z' = NoResult
    /\ h_pc' = "encoded"
    /\ h_before' = h_gc
    /\ UNCHANGED h_gc
    /\ UNCHANGED <<fvars, bvars>>

\* errors |= bit, for one of the NumFlipBits positions (in rising order)
HFlipSome ==
    /\ h_pc = "encoded"
    /\ count_ones(h_errors) < MaxFlips
    /\ \E n \in 1..NumFlipBits :
          /\ 2 ^ FlipBit24(n) > h_errors
          /\ h_errors' = h_errors + 2 ^ FlipBit24(n)
    /\ UNCHANGED <<h_pc, h_gc, h_x, h_y, h_z, h_before>>
    /\ UNCHANGED <<fvars, bvars>>

NextCounters == HDecodeMany \/ HEncodeNext \/ HFlipSome \/ HDecode

SpecCounters == InitCounters /\ [][NextCounters]_vars

\* the harness has decoded y ^ errors
HDecoded == h_pc = "idle" /\ h_z # NoResult

(***************************************************************************)
(* The file runs: calls of process_one_file (main.rs, the loop over the    *)
(* file names) on a file system that starts with one plain file, with the  *)
(* slices damaged between the calls.                                       *)
(***************************************************************************)
NumContents == 3    \* file contents of the deletion runs
NumFlipContents == 2 \* file contents of the bit-flip runs
NumRandoms == 2     \* values of random_number
MaxCalls == 2       \* calls of process_one_file in one run
MaxMissing == 2     \* slices deleted
MaxGroupFlips == 4  \* bits flipped in one 24-byte group
NumSites == 5       \* bit positions of a group that may be flipped

\* the name of the plain file
Base == <<"f">>

\* lengths: empty, neither a multiple of 12 nor of 64, more than one chunk,
\* a single byte, more than one CTR batch, one block, one batch
ContentLength(c) ==
    <<0, 13, BUFFER_LEN + 1, 1, 65, 12, 64>>[((c - 1) % 7) + 1]

Content(c) == Eager([i \in 1..ContentLength(c) |-> (i * 41 + c * 7) % 256])

\* a value of random_number, lines 497..508
Random(r) == Eager([i \in 1..8 |-> (r * 83 + i * 29) % 256])

\* the names given on the command line
ArgNames ==
    {Base, Base \o ENCRYPTED_SUFFIX, slice_filename(Base, 0),
     slice_filename(Base, 2)}

\* bit positions of a 24-byte group: slice, byte of the triplet, bit.  The
\* first four fall into one codeword (bit 0 of four different planes).
Site(s) ==
    [slice |-> (s * 3) % 8, byte |-> s % 3,
     bit |-> IF s <= 4 THEN 0 ELSE (s * 5) % 8]

Untampered == [by |-> "nothing", deleted |-> {}, flips |-> {}, group |-> 0]

NoIo == [reads |-> 0, touched |-> {}, chunks |-> 0]

FInit(contents, by) ==
    /\ \E c \in 1..contents : fs = [n \in {Base} |-> Content(c)]
    /\ pc = "idle"
    /\ loc = InitialLocals
    /\ call = [filename |-> <<>>, compatibility_mode |-> FALSE, key |-> 1,
               before |-> << >>]
    /\ io = NoIo
    /\ hist = << >>
    /\ tamper = [Untampered EXCEPT !.by = by]

\* what is kept of a call that has returned
Returned(c, o, io1) ==
    [filename |-> c.filename, compatibility_mode |-> c.compatibility_mode,
     key |-> c.key, mode |-> Mode(o.loc), ret |-> o.ret,
     reads |-> io1.reads, touched |-> io1.touched, chunks |-> io1.chunks,
     before |-> c.before, after |-> o.fs, loc |-> o.loc,
     deleted |-> tamper.deleted, flips |-> tamper.flips,
     group |-> tamper.group]

\* a step of process_one_file with outcome o
Step(c, o, io0, chunks, nextpc) ==
    LET io1 == [reads |-> io0.reads + o.reads,
                touched |-> io0.touched \cup o.touched,
                chunks |-> io0.chunks + chunks]
    IN  /\ fs' = o.fs
        /\ loc' = o.loc
        /\ io' = io1
        /\ call' = c
        /\ pc' = IF o.returned THEN "idle" ELSE nextpc
        /\ hist' = IF o.returned THEN Append(hist, Returned(c, o, io1))
                   ELSE hist
        /\ UNCHANGED tamper
        /\ UNCHANGED <<hvars, bvars>>

\* main.rs 113..135: process_one_file(filename, &schedule, compatibility_mode)
\* up to the opening of the files.  The bit-flip runs call the protected
\* mode only; damaged slices are followed by decode calls only.
Call ==
    /\ pc = "idle"
    /\ Len(hist) < MaxCalls
    /\ \E filename \in ArgNames, compatibility_mode \in BOOLEAN,
          key \in 1..NumKeys :
          /\ tamper.by = "bit flips" =>
                ~compatibility_mode /\ filename \in {Base, slice_filename(Base, 0)}
          /\ (tamper.deleted # {} \/ tamper.flips # {}) => IsSliceName(filename)
          /\ Step([filename |-> filename,
                   compatibility_mode |-> compatibility_mode,
                   key |-> key, before |-> fs],
                  start(filename, compatibility_mode, key, fs),
                  NoIo, 0, "open")

\* lines 360..549
Open ==
    /\ pc = "open"
    /\ \E r \in 1..NumRandoms :
          /\ tamper.by \in {"bit flips", "names", "arguments", "damage"} => r = 1
          /\ Step(call, open(loc, fs, Random(r)), io, 0, "loop")

\* lines 551..631: one pass of the loop
Chunk ==
    /\ pc = "loop"
    /\ loc.remaining_length > 0
    /\ Step(call, chunk(loc, fs, overflow_checks), io, 1, "loop")

\* lines 633..772
Finish ==
    /\ pc = "loop"
    /\ loc.remaining_length <= 0
    /\ Step(call, finish(loc, fs), io, 0, "idle")

\* the slices were just written by an encode run and another call may follow
SlicesFresh ==
    /\ pc = "idle"
    /\ hist # << >>
    /\ Len(hist) < MaxCalls
    /\ hist[Len(hist)].mode = "encode"
    /\ hist[Len(hist)].ret = PHNX_OK

Removed(files, name) == [n \in DOMAIN files \ {name} |-> files[n]]

\* a slice file is lost (slices drawn in rising order)
DeleteSlice ==
    /\ SlicesFresh
    /\ Cardinality(tamper.deleted) < MaxMissing
    /\ \E i \in 0..7 :
          /\ \A d \in tamper.deleted : d < i
          /\ fs' = Removed(fs, slice_filename(Base, i))
          /\ tamper' = [tamper EXCEPT !.deleted = @ \cup {i}]
    /\ UNCHANGED <<pc, loc, call, io, hist>>
    /\ UNCHANGED <<hvars, bvars>>

\* the byte with bit b flipped
FlippedByte(byte, b) ==
    IF BitOf(byte, b) = 1 THEN byte - 2 ^ b ELSE byte + 2 ^ b

\* the 24-byte groups of the slices: the first, and the two of the trailer
FlipGroups(files) ==
    LET groups == Len(files[slice_filename(Base, 0)]) \div 3
    IN  {0, groups - 2, groups - 1}

\* a bit of a slice file is flipped (sites drawn in rising order, all in the
\* group of the first)
FlipBit ==
    /\ SlicesFresh
    /\ Cardinality(tamper.flips) < MaxGroupFlips
    /\ \E s \in 1..NumSites, g \in FlipGroups(fs) :
          /\ tamper.flips # {} => g = tamper.group
          /\ \A d \in tamper.flips : d < s
          /\ fs' = [fs EXCEPT ![slice_filename(Base, Site(s).slice)]
                                [3 * g + Site(s).byte + 1] =
                                    FlippedByte(@, Site(s).bit)]
          /\ tamper' = [tamper EXCEPT !.flips = @ \cup {s}, !.group = g]
    /\ UNCHANGED <<pc, loc, call, io, hist>>
    /\ UNCHANGED <<hvars, bvars>>

Init == HIdle /\ FInit(NumContents, "deletion") /\ Built

Next == Call \/ Open \/ Chunk \/ Finish \/ DeleteSlice

Spec == Init /\ [][Next]_vars

InitFlip == HIdle /\ FInit(NumFlipContents, "bit flips") /\ Built

NextFlip == Call \/ Open \/ Chunk \/ Finish \/ FlipBit

SpecFlip == InitFlip /\ [][NextFlip]_vars

(***************************************************************************)
(* The runs on given inputs: calls of process_one_file with one password   *)
(* on a file system that starts with a single file under one of several    *)
(* names, or with a .encrypted file or a set of slices too short for a     *)
(* trailer.                                                                *)
(***************************************************************************)
NumNames == 13      \* file names given to process_one_file
NumShort == 4       \* lengths of the short files

\* names: plain, compatibility output, slice, ".phnx_" with a letter that
\* is no slice letter, tails of 2, 8, 0 and 9 hex digits after
\* ".encrypted-", a tail that is not hex, the bare suffixes, a lower-case
\* slice letter
InputName(n) ==
    << Base,
       Base \o ENCRYPTED_SUFFIX,
       slice_filename(Base, 0),
       Base \o PHNX_SUFFIX \o <<"I">>,
       Base \o ENCRYPTED_DASH \o <<"a", "b">>,
       Base \o ENCRYPTED_DASH \o <<"0", "0", "0", "0", "A", "B", "c", "d">>,
       Base \o ENCRYPTED_DASH,
       Base \o ENCRYPTED_DASH \o <<"1", "2", "3", "4", "5", "6", "7", "8", "9">>,
       Base \o ENCRYPTED_DASH \o <<"0", "0", "0", "0", "0", "0", "0", "1", "2">>,
       Base \o ENCRYPTED_DASH \o <<"x", "y">>,
       PHNX_SUFFIX \o <<"A">>,
       ENCRYPTED_SUFFIX,
       Base \o PHNX_SUFFIX \o <<"a">> >>[((n - 1) % 13) + 1]

InputNames == {InputName(n) : n \in 1..NumNames}

\* lengths below the 16 bytes of the compatibility trailer, the first and
\* the last below the 6 bytes a slice holds of the protected trailer
ShortLength(c) == <<0, 5, 15, 3>>[((c - 1) % 4) + 1]

ShortContent(c) == Eager([i \in 1..ShortLength(c) |-> (i * 59 + c) % 256])

\* the file systems the runs start with
InputFiles ==
    {[n \in {name} |-> Content(2)] : name \in InputNames}
    \cup {[n \in {Base \o ENCRYPTED_SUFFIX} |-> ShortContent(c)] :
             c \in 1..NumShort}
    \cup {[n \in {slice_filename(Base, k) : k \in 0..7} |-> ShortContent(c)] :
             c \in {d \in 1..NumShort : ShortLength(d) < 6}}
    \cup {[n \in {slice_filename(Base, k) : k \in 1..7} |-> ShortContent(c)] :
             c \in {d \in 1..NumShort : ShortLength(d) < 6}}

\* main.rs 113..135 with the key of the run
CallNamed ==
    /\ pc = "idle"
    /\ Len(hist) < MaxCalls
    /\ \E filename \in InputNames, compatibility_mode \in BOOLEAN :
          Step([filename |-> filename,
                compatibility_mode |-> compatibility_mode,
                key |-> 1, before |-> fs],
               start(filename, compatibility_mode, 1, fs),
               NoIo, 0, "open")

InitInputs ==
    /\ HIdle
    /\ Built
    /\ fs \in InputFiles
    /\ pc = "idle"
    /\ loc = InitialLocals
    /\ call = [filename |-> <<>>, compatibility_mode |-> FALSE, key |-> 1,
               before |-> << >>]
    /\ io = NoIo
    /\ hist = << >>
    /\ tamper = [Untampered EXCEPT !.by = "names"]

\* lines 633..772 in every mode but compatibility decrypt
FinishOther == Mode(loc) # "decrypt" /\ Finish

\* lines 633..741 in compatibility decrypt: the file is closed, the CRC-32C
\* is compared and the file is renamed
FinishRename ==
    /\ pc = "loop"
    /\ loc.remaining_length <= 0
    /\ Mode(loc) = "decrypt"
    /\ Step(call, finish_decrypt_renamed(loc, fs), io, 0, "truncate")

\* lines 742..757: the renamed file is opened and cut, or either fails
FinishTruncate ==
    /\ pc = "truncate"
    /\ \E done \in BOOLEAN :
          Step(call, finish_decrypt_truncated(loc, fs, done), io, 0, "idle")

NextInputs ==
    CallNamed \/ Open \/ Chunk \/ FinishOther \/ FinishRename \/ FinishTruncate

SpecInputs == InitInputs /\ [][NextInputs]_vars

(***************************************************************************)
(* The runs on damaged compatibility files: calls of process_one_file in   *)
(* compatibility mode on a file system that starts with a plain file and   *)
(* the same content under a checksum-tagged name, with a bit of the        *)
(* .encrypted file flipped between the calls.                              *)
(***************************************************************************)
NumDamageContents == 3  \* file contents of the damage runs
MaxDamageCalls == 3     \* calls of process_one_file in one run
MaxDamageFlips == 1     \* bits flipped in the .encrypted file
NumDamageSites == 4     \* bytes of the .encrypted file that may be hit

\* a name with a tag of eight hex digits
TaggedName ==
    Base \o ENCRYPTED_DASH \o <<"0", "0", "0", "0", "A", "B", "c", "d">>

\* the byte hit, counted from 1: the first and the last of the body, the
\* first of the CRC-32C word of the trailer, the last of its nonce word
DamageSite(s, length) ==
    <<1, length - 16, length - 15, length>>[((s - 1) % 4) + 1]

InitDamage ==
    /\ HIdle
    /\ Built
    /\ \E c \in 1..NumDamageContents :
          fs = [n \in {Base, TaggedName} |-> Content(c)]
    /\ pc = "idle"
    /\ loc = InitialLocals
    /\ call = [filename |-> <<>>, compatibility_mode |-> FALSE, key |-> 1,
               before |-> << >>]
    /\ io = NoIo
    /\ hist = << >>
    /\ tamper = [Untampered EXCEPT !.by = "damage"]

\* main.rs 113..135 after -c, up to the opening of the files
CallCompatible ==
    /\ pc = "idle"
    /\ Len(hist) < MaxDamageCalls
    /\ \E filename \in {Base, Base \o ENCRYPTED_SUFFIX, TaggedName},
          key \in 1..NumKeys :
          Step([filename |-> filename, compatibility_mode |-> TRUE,
                key |-> key, before |-> fs],
               start(filename, TRUE, key, fs),
               NoIo, 0, "open")

\* a bit of the .encrypted file is flipped after the run that wrote it
\* (sites drawn in rising order, bit s % 8 of the byte of site s)
FlipEncrypted ==
    /\ pc = "idle"
    /\ hist # << >>
    /\ Len(hist) < MaxDamageCalls
    /\ hist[Len(hist)].mode = "encrypt"
    /\ hist[Len(hist)].ret = PHNX_OK
    /\ Base \o ENCRYPTED_SUFFIX \in DOMAIN fs
    /\ Cardinality(tamper.flips) < MaxDamageFlips
    /\ \E s \in 1..NumDamageSites :
          LET at == DamageSite(s, Len(fs[Base \o ENCRYPTED_SUFFIX]))
          IN  /\ at >= 1
              /\ \A d \in tamper.flips : d < s
              /\ fs' = [fs EXCEPT ![Base \o ENCRYPTED_SUFFIX][at] =
                                      FlippedByte(@, s % 8)]
              /\ tamper' = [tamper EXCEPT !.flips = @ \cup {s}]
    /\ UNCHANGED <<pc, loc, call, io, hist>>
    /\ UNCHANGED <<hvars, bvars>>

NextDamage == CallCompatible \/ Open \/ Chunk \/ Finish \/ FlipEncrypted

SpecDamage == InitDamage /\ [][NextDamage]_vars

(***************************************************************************)
(* main.rs: the loop over the arguments, lines 113..140, with the password *)
(* of key 1, on a file system that holds one plain file.                   *)
(***************************************************************************)
MaxArgs == 4        \* arguments after the program name

DASH_C == <<"-", "c">>

DASH_G == <<"-", "g">>

IsFlag(arg) == arg = DASH_C \/ arg = DASH_G

\* what an argument may be
MainArgs ==
    {DASH_C, DASH_G, Base, Base \o ENCRYPTED_SUFFIX, slice_filename(Base, 0)}

ArgLists == UNION {[1..n -> MainArgs] : n \in 1..MaxArgs}

\* mutant of last_error: the result of the last file
last_result(result, last_error_code) == result

\* lines 129..131
last_error(result, last_error_code) ==
    IF result # PHNX_OK THEN result ELSE last_error_code

InitMain ==
    /\ HIdle
    /\ overflow_checks \in BOOLEAN
    /\ bar = NoBar
    /\ blk = NoBlock
    /\ ctr = NoCtr
    /\ \E args \in ArgLists : main = [NoMain EXCEPT !.pc = "loop", !.args = args]
    /\ fs = [n \in {Base} |-> Content(2)]
    /\ pc = "idle"
    /\ loc = InitialLocals
    /\ call = [filename |-> <<>>, compatibility_mode |-> FALSE, key |-> 1,
               before |-> << >>]
    /\ io = NoIo
    /\ hist = << >>
    /\ tamper = [Untampered EXCEPT !.by = "arguments"]

\* lines 119..127: a flag
MainFlag ==
    /\ main.pc = "loop"
    /\ main.i <= Len(main.args)
    /\ IsFlag(main.args[main.i])
    /\ main' = [main EXCEPT !.compatibility_mode = (main.args[main.i] = DASH_C),
                            !.i = @ + 1]
    /\ UNCHANGED <<hvars, fvars, overflow_checks, bar, blk, ctr>>

\* line 128: process_one_file is entered
MainCall ==
    /\ main.pc = "loop"
    /\ main.i <= Len(main.args)
    /\ ~IsFlag(main.args[main.i])
    /\ pc = "idle"
    /\ Len(hist) = main.ok_ct + main.fail_ct
    /\ Step([filename |-> main.args[main.i],
             compatibility_mode |-> main.compatibility_mode,
             key |-> 1, before |-> fs],
            start(main.args[main.i], main.compatibility_mode, 1, fs),
            NoIo, 0, "open")

\* lines 128..134: process_one_file has returned; a panic ends the process
MainResult ==
    /\ main.pc = "loop"
    /\ pc = "idle"
    /\ Len(hist) = main.ok_ct + main.fail_ct + 1
    /\ LET result == hist[Len(hist)].ret
       IN  main' =
               IF result = Panicked THEN [main EXCEPT !.pc = "panicked"]
               ELSE [main EXCEPT
                        !.last_error_code = last_error(result, @),
                        !.fail_ct = IF result # PHNX_OK THEN @ + 1 ELSE @,
                        !.ok_ct = IF result # PHNX_OK THEN @ ELSE @ + 1,
                        !.i = @ + 1]
    /\ UNCHANGED <<hvars, fvars, overflow_checks, bar, blk, ctr>>

\* line 140: std::process::exit(last_error_code)
MainExit ==
    /\ main.pc = "loop"
    /\ main.i > Len(main.args)
    /\ main' = [main EXCEPT !.pc = "exited", !.exit_code = main.last_error_code]
    /\ UNCHANGED <<hvars, fvars, overflow_checks, bar, blk, ctr>>

NextMain ==
    MainFlag \/ MainCall \/ Open \/ Chunk \/ Finish \/ MainResult \/ MainExit

SpecMain == InitMain /\ [][NextMain]_vars

(***************************************************************************)
(* One block through the slices: golay_encode_and_write of 12 bytes into   *)
(* eight slices of 3 bytes, the loss of a slice or the flip of a bit of a  *)
(* slice, and golay_read_and_decode of the block.                          *)
(***************************************************************************)
NumBlocks == 4      \* contents of the block
MaxBlockFlips == 1  \* bits flipped in the slices of the block

\* every bit set, no bit set, and mixed ones
TestBlock(b) ==
    Eager([j \in 1..12 |->
              IF b % 4 = 1 THEN 255
              ELSE IF b % 4 = 2 THEN 0
              ELSE (b * 97 + j * 53) % 256])

\* the slices as files
BlockSlices(appended) ==
    [n \in {slice_filename(Base, k) : k \in 0..7} |->
        appended[(CHOOSE k \in 0..7 : n = slice_filename(Base, k)) + 1]]

\* the 24 bytes that lines 24..33 of golay_read_and_decode collect
triplets_read(files, slices) ==
    Concat([i \in 1..8 |-> triplet_of(files, slices[i])], 1, 8)

InitBlock ==
    /\ HIdle
    /\ NoFiles
    /\ overflow_checks \in BOOLEAN
    /\ bar = NoBar
    /\ main = NoMain
    /\ ctr = NoCtr
    /\ \E b \in 1..NumBlocks :
          blk = [NoBlock EXCEPT !.pc = "new", !.twelvebytes = TestBlock(b)]

\* golay_encode_and_write(twelvebytes, 12, slices, gc)
BlockWrite ==
    /\ blk.pc = "new"
    /\ blk' = [blk EXCEPT
                  !.pc = "written",
                  !.written = encode_block(blk.twelvebytes),
                  !.files = BlockSlices(
                                golay_encode_and_write(blk.twelvebytes, 12))]
    /\ UNCHANGED <<hvars, fvars, overflow_checks, bar, main, ctr>>

\* a slice is lost
BlockLose ==
    /\ blk.pc = "written"
    /\ blk.missing = {}
    /\ blk.flips = {}
    /\ \E k \in 0..7 :
          blk' = [blk EXCEPT !.missing = {k},
                             !.files = Removed(@, slice_filename(Base, k))]
    /\ UNCHANGED <<hvars, fvars, overflow_checks, bar, main, ctr>>

\* bit i of byte t of slice k is flipped
BlockFlip ==
    /\ blk.pc = "written"
    /\ Cardinality(blk.flips) < MaxBlockFlips
    /\ \E k \in 0..7, t \in 0..2, i \in 0..7 :
          /\ k \notin blk.missing
          /\ <<k, t, i>> \notin blk.flips
          /\ blk' = [blk EXCEPT
                        !.flips = @ \cup {<<k, t, i>>},
                        !.files[slice_filename(Base, k)][t + 1] =
                            FlippedByte(@, i)]
    /\ UNCHANGED <<hvars, fvars, overflow_checks, bar, main, ctr>>

\* process.rs 293..312 and golay_read_and_decode(buffer, 12, slices, gc)
BlockRead ==
    /\ blk.pc = "written"
    /\ LET slices == opened_slices(slice_filename(Base, 0), blk.files)
       IN  blk' = [blk EXCEPT
                      !.pc = "read",
                      !.read = triplets_read(blk.files, slices),
                      !.r = golay_read_and_decode(12, 12, blk.files, slices,
                                                  GolayCodeNew)]
    /\ UNCHANGED <<hvars, fvars, overflow_checks, bar, main, ctr>>

NextBlock == BlockWrite \/ BlockLose \/ BlockFlip \/ BlockRead

SpecBlock == InitBlock /\ [][NextBlock]_vars

(***************************************************************************)
(* The CTR passes: the loop of lines 551..631 of process_one_file as far   *)
(* as the keystream goes, on a body held in memory.  Each pass takes the   *)
(* next chunk of at most BUFFER_LEN bytes through lines 579..599 with the  *)
(* counter register of line 529 as the pass before left it.                *)
(***************************************************************************)
NumNonces == 3      \* nonces
NumBodies == 8      \* body lengths

CtrNonce(n) == Eager([i \in 1..8 |-> (n * 151 + i * 67) % 256])

\* lengths around the 64 bytes of a batch and the BUFFER_LEN bytes of a chunk
BodyLength(c) ==
    <<0, 1, 63, 64, 65, BUFFER_LEN, BUFFER_LEN + 17, 2 * BUFFER_LEN + 1>>
        [((c - 1) % 8) + 1]

Body(c) == Eager([i \in 1..BodyLength(c) |-> (i * 37 + c * 11) % 256])

InitCtr ==
    /\ HIdle
    /\ NoFiles
    /\ overflow_checks \in BOOLEAN
    /\ bar = NoBar
    /\ main = NoMain
    /\ blk = NoBlock
    /\ \E n \in 1..NumNonces, key \in 1..NumKeys, c \in 1..NumBodies :
          ctr = [NoCtr EXCEPT
                    !.pc = "loop", !.key = key, !.nonce = CtrNonce(n),
                    !.data = Body(c),
                    !.nonce_and_counter = counter_register(CtrNonce(n))]

\* the pass with its chunk encrypted as r
CtrPassed(r) ==
    ctr' = [ctr EXCEPT !.done = @ \o r.buffer,
                       !.nonce_and_counter = r.nonce_and_counter,
                       !.passes = @ + 1]

\* lines 551..553 and 579..599: one pass of the loop
CtrPass ==
    /\ ctr.pc = "loop"
    /\ Len(ctr.done) < Len(ctr.data)
    /\ LET chunk_size == Min(Len(ctr.data) - Len(ctr.done), BUFFER_LEN)
       IN  CtrPassed(ctr_chunk(SubSeq(ctr.data, Len(ctr.done) + 1,
                                      Len(ctr.done) + chunk_size),
                               chunk_size, ctr.nonce_and_counter,
                               SCHEDULES[ctr.key]))
    /\ UNCHANGED <<hvars, fvars, overflow_checks, bar, main, blk>>

\* line 551: remaining_length is 0
CtrEnd ==
    /\ ctr.pc = "loop"
    /\ Len(ctr.done) = Len(ctr.data)
    /\ ctr' = [ctr EXCEPT !.pc = "done"]
    /\ UNCHANGED <<hvars, fvars, overflow_checks, bar, main, blk>>

NextCtr == CtrPass \/ CtrEnd

SpecCtr == InitCtr /\ [][NextCtr]_vars

(***************************************************************************)
(* The long runs: process_one_file in the two encrypting modes on a plain  *)
(* file of which only the length is kept, which may be any i64 that a file *)
(* length can be.  Lines 423..454 give length and remaining_length, lines  *)
(* 513..527 the notches, and each pass of the loop of lines 551..631 takes *)
(* a chunk of the buffer's true size off remaining_length and updates the  *)
(* progress display.  The reads, the cipher and the writes of a pass are   *)
(* taken to succeed.                                                       *)
(***************************************************************************)
NumLengths == 6     \* file lengths of the long runs

\* let mut buffer = [0u8; 16 * 4 * 12 * 100], line 552
BUFFER_BYTES == 16 * 4 * 12 * 100

\* 4 GiB
TwoTo32 == <<0, 0, 0, 0, 1, 0, 0, 0>>

\* lengths: empty, less than a chunk, two chunks, 4 GiB, some 114 MiB, two
\* chunks above 4 GiB, 1 MiB
LongLength(c) ==
    << U64(0), U64(13), U64(BUFFER_BYTES + 1), TwoTo32, U64(120000000),
       WrappingAdd(TwoTo32, U64(BUFFER_BYTES + 1)),
       U64(1048576) >>[((c - 1) % 7) + 1]

\* process_one_file on an existing plain file, up to the loop
BarCall ==
    /\ bar.pc = "idle"
    /\ \E c \in 1..NumLengths, compatibility_mode \in BOOLEAN :
          bar' = [pc |-> "loop",
                  mode |-> IF compatibility_mode THEN "encrypt" ELSE "encode",
                  length |-> LongLength(c),
                  remaining_length |-> LongLength(c),
                  total_notches |-> total_notches_of(LongLength(c)),
                  notches_shown |-> 0,
                  passes |-> 0]
    /\ UNCHANGED <<hvars, fvars, overflow_checks, main, blk, ctr>>

\* std::cmp::min(remaining_length as usize, buffer.len()), line 553
chunk_size_of(remaining_length) ==
    IF Less(remaining_length, U64(BUFFER_BYTES)) THEN remaining_length
    ELSE U64(BUFFER_BYTES)

\* lines 618..630 for the new remaining_length
bar_progress(b, remaining_length) ==
    update_progress(b.length, WrappingSub(b.length, remaining_length),
                    b.total_notches, b.notches_shown, overflow_checks)

\* the pass has left remaining_length and shown p
bar_shown(b, remaining_length, p) ==
    [b EXCEPT !.pc = IF p.panicked THEN "panicked" ELSE "loop",
              !.remaining_length = remaining_length,
              !.notches_shown = p.notches_shown,
              !.passes = @ + 1]

\* lines 551..631: one pass of the loop
BarPass ==
    /\ bar.pc = "loop"
    /\ Positive(bar.remaining_length)
    /\ LET remaining_length ==
               WrappingSub(bar.remaining_length,
                           chunk_size_of(bar.remaining_length))
       IN  bar' = bar_shown(bar, remaining_length,
                            bar_progress(bar, remaining_length))
    /\ UNCHANGED <<hvars, fvars, overflow_checks, main, blk, ctr>>

\* lines 633..699: the trailer is written and PHNX_OK returned
BarFinish ==
    /\ bar.pc = "loop"
    /\ ~Positive(bar.remaining_length)
    /\ bar' = [bar EXCEPT !.pc = "returned"]
    /\ UNCHANGED <<hvars, fvars, overflow_checks, main, blk, ctr>>

InitProgress == HIdle /\ NoFiles /\ Built

NextProgress == BarCall \/ BarPass \/ BarFinish

SpecProgress == InitProgress /\ [][NextProgress]_vars

(***************************************************************************)
(* C1: a codeword with at most three flipped bits, wherever they fall,     *)
(* decodes to the data word that was encoded: never the sentinel -1,       *)
(* never another word.                                                     *)
(***************************************************************************)
C1_UpToThreeErrorsCorrected ==
    (HDecoded /\ count_ones(h_errors) <= 3) => h_z = h_x

\* three errors, some in the data half and some in the checksum half
C1_Witness ==
    /\ HDecoded
    /\ count_ones(h_errors) = 3
    /\ h_errors % 4096 # 0
    /\ h_errors \div 4096 # 0
    /\ h_x # 0
    /\ h_z = h_x

(***************************************************************************)
(* C2: decoding an untouched codeword returns the data word, counts one    *)
(* processed codeword and leaves the corrected and uncorrectable counters  *)
(* as they were.                                                           *)
(***************************************************************************)
C2_CleanRoundTrip ==
    (HDecoded /\ h_errors = 0) =>
        /\ h_z = h_x
        /\ h_gc.corrected_codewords = h_before.corrected_codewords
        /\ h_gc.uncorrectable_codewords = h_before.uncorrectable_codewords
        /\ h_gc.processed_codewords = h_before.processed_codewords + 1

C2_Witness ==
    /\ HDecoded
    /\ h_errors = 0
    /\ h_x # 0
    /\ h_z = h_x
    /\ h_gc.processed_codewords = 1
    /\ h_gc.corrected_codewords = 0

(***************************************************************************)
(* What the claims about the file runs speak of.                           *)
(***************************************************************************)
SliceNames == {slice_filename(Base, k) : k \in 0..7}

EncryptedName == Base \o ENCRYPTED_SUFFIX

\* call i ran encode mode on the plain file
EncodeRun(i) ==
    /\ hist[i].filename = Base
    /\ hist[i].mode = "encode"
    /\ Base \in DOMAIN hist[i].before

\* call i ran encrypt-in-place on the plain file
EncryptRun(i) ==
    /\ hist[i].filename = Base
    /\ hist[i].mode = "encrypt"
    /\ Base \in DOMAIN hist[i].before

\* call j was given the name of a slice
DecodeRun(j) == IsSliceName(hist[j].filename)

\* the slices that could not be opened by call j
Missing(j) == {n \in SliceNames : n \notin DOMAIN hist[j].before}

\* every slice call j could open was as call i had written it
SlicesIntact(i, j) ==
    \A n \in SliceNames \ Missing(j) :
        n \in DOMAIN hist[i].after /\ hist[j].before[n] = hist[i].after[n]

\* the slices of files with the bits at the sites S of group g flipped
WithFlips(files, S, g) ==
    [n \in SliceNames |->
        [q \in 1..Len(files[n]) |->
            IF \E t \in S : /\ slice_filename(Base, Site(t).slice) = n
                            /\ q = 3 * g + Site(t).byte + 1
            THEN FlippedByte(files[n][q],
                             Site(CHOOSE t \in S :
                                     /\ slice_filename(Base, Site(t).slice) = n
                                     /\ q = 3 * g + Site(t).byte + 1).bit)
            ELSE files[n][q]]]

\* call j found the slices as call i had written them but for the bits
\* hist[j].flips of group hist[j].group
SlicesFlipped(i, j) ==
    /\ Missing(j) = {}
    /\ \A n \in SliceNames : n \in DOMAIN hist[i].after
    /\ [n \in SliceNames |-> hist[j].before[n]]
          = WithFlips(hist[i].after, hist[j].flips, hist[j].group)

\* call j recovered the content call i was given
Recovered(i, j) ==
    /\ hist[j].ret = PHNX_OK
    /\ Base \in DOMAIN hist[j].after
    /\ hist[j].after[Base] = hist[i].before[Base]

Pairs == {p \in (1..Len(hist)) \X (1..Len(hist)) : p[1] < p[2]}

(***************************************************************************)
(* C3: encode mode on a file and then decode mode on the eight slices it   *)
(* wrote, with the same key, return OK both times, and the decoded file is *)
(* the original, byte for byte and of the same length.  Stated here of the *)
(* files of the file runs, and below of a file of any length.              *)
(***************************************************************************)
C3_ProtectedRoundTrip ==
    /\ \A i \in 1..Len(hist) : EncodeRun(i) => hist[i].ret = PHNX_OK
    /\ \A p \in Pairs :
          (/\ EncodeRun(p[1])
           /\ DecodeRun(p[2])
           /\ hist[p[2]].key = hist[p[1]].key
           /\ Missing(p[2]) = {}
           /\ SlicesIntact(p[1], p[2]))
          => Recovered(p[1], p[2])

\* a file of more than one chunk, and of a length that is no multiple of 12
\* or 64, has made the round trip
C3_Witness ==
    \E p \in Pairs :
        /\ EncodeRun(p[1])
        /\ DecodeRun(p[2])
        /\ hist[p[2]].key = hist[p[1]].key
        /\ Missing(p[2]) = {}
        /\ SlicesIntact(p[1], p[2])
        /\ Len(hist[p[1]].before[Base]) > BUFFER_LEN
        /\ Len(hist[p[1]].before[Base]) % 12 # 0
        /\ hist[p[1]].chunks = 2
        /\ hist[p[2]].chunks = 2
        /\ Recovered(p[1], p[2])

\* C3, for a file of any length: process_one_file in encode mode on a plain
\* file that can be read, with slices that can be written, returns OK; it
\* does not end in a panic
C3_EncodeReturnsForAnyLength ==
    ~(bar.mode = "encode" /\ bar.pc = "panicked")

(***************************************************************************)
(* C4: encrypt-in-place of a file of L bytes leaves a file of L + 16 bytes *)
(* under the name with .encrypted added and none under the old name;       *)
(* compatibility decrypt of that file with the same key returns OK and     *)
(* leaves the original L bytes under the old name.  Stated here of the     *)
(* files of the file runs, and below of a file of any length.              *)
(***************************************************************************)
C4_CompatibilityRoundTrip ==
    /\ \A i \in 1..Len(hist) :
          EncryptRun(i) =>
              /\ hist[i].ret = PHNX_OK
              /\ Base \notin DOMAIN hist[i].after
              /\ EncryptedName \in DOMAIN hist[i].after
              /\ Len(hist[i].after[EncryptedName])
                    = Len(hist[i].before[Base]) + 16
    /\ \A p \in Pairs :
          (/\ EncryptRun(p[1])
           /\ hist[p[2]].filename = EncryptedName
           /\ EncryptedName \in DOMAIN hist[p[2]].before
           /\ hist[p[2]].before[EncryptedName] = hist[p[1]].after[EncryptedName]
           /\ hist[p[2]].key = hist[p[1]].key)
          => /\ Recovered(p[1], p[2])
             /\ EncryptedName \notin DOMAIN hist[p[2]].after

C4_Witness ==
    \E p \in Pairs :
        /\ EncryptRun(p[1])
        /\ hist[p[2]].filename = EncryptedName
        /\ hist[p[2]].mode = "decrypt"
        /\ hist[p[2]].key = hist[p[1]].key
        /\ Len(hist[p[1]].before[Base]) = 13
        /\ Len(hist[p[2]].before[EncryptedName]) = 29
        /\ Recovered(p[1], p[2])

\* C4, for a file of any length L: encrypt-in-place of a plain file that can
\* be read and written gets to append the trailer and to rename the file; it
\* does not end in a panic that leaves part of the file encrypted
C4_EncryptReturnsForAnyLength ==
    ~(bar.mode = "encrypt" /\ bar.pc = "panicked")

(***************************************************************************)
(* C5: with exactly one of the eight slices gone, whichever it is and also *)
(* when it is the one named, and the other seven as encode wrote them,     *)
(* decode mode returns OK and the output file is the original.             *)
(***************************************************************************)
C5_OneMissingSliceRecovered ==
    \A p \in Pairs :
        (/\ EncodeRun(p[1])
         /\ hist[p[1]].ret = PHNX_OK
         /\ DecodeRun(p[2])
         /\ hist[p[2]].key = hist[p[1]].key
         /\ Cardinality(Missing(p[2])) = 1
         /\ SlicesIntact(p[1], p[2]))
        => Recovered(p[1], p[2])

\* the slice named on the command line is the missing one
C5_Witness ==
    \E p \in Pairs :
        /\ EncodeRun(p[1])
        /\ DecodeRun(p[2])
        /\ hist[p[2]].key = hist[p[1]].key
        /\ Missing(p[2]) = {hist[p[2]].filename}
        /\ SlicesIntact(p[1], p[2])
        /\ hist[p[1]].before[Base] # << >>
        /\ ~hist[p[2]].loc.slices[3].open
        /\ Recovered(p[1], p[2])

(***************************************************************************)
(* C6: with all eight slices present and one to three bits flipped inside  *)
(* one 24-byte group, of the body or of the trailer, decode mode returns   *)
(* OK, the output file is the original and the corrected-codeword counter  *)
(* is above zero.                                                          *)
(***************************************************************************)
C6_ThreeFlipsInAGroupCorrected ==
    \A p \in Pairs :
        (/\ EncodeRun(p[1])
         /\ hist[p[1]].ret = PHNX_OK
         /\ DecodeRun(p[2])
         /\ hist[p[2]].key = hist[p[1]].key
         /\ Cardinality(hist[p[2]].flips) \in 1..3
         /\ SlicesFlipped(p[1], p[2]))
        => /\ Recovered(p[1], p[2])
           /\ hist[p[2]].loc.gc.corrected_codewords > 0

\* three flipped bits in one codeword of a body group
C6_Witness ==
    \E p \in Pairs :
        /\ EncodeRun(p[1])
        /\ DecodeRun(p[2])
        /\ hist[p[2]].key = hist[p[1]].key
        /\ hist[p[2]].flips = {1, 2, 3}
        /\ hist[p[2]].group = 0
        /\ Len(hist[p[1]].before[Base]) > 12
        /\ SlicesFlipped(p[1], p[2])
        /\ Recovered(p[1], p[2])
        /\ hist[p[2]].loc.gc.corrected_codewords = 1

(***************************************************************************)
(* C7: a call on a slice name with two or more of the eight slices gone    *)
(* returns 3 without having read a slice and without having created or     *)
(* changed any file.                                                       *)
(***************************************************************************)
C7_TwoMissingSlicesRejected ==
    \A j \in 1..Len(hist) :
        (DecodeRun(j) /\ Cardinality(Missing(j)) >= 2)
        => /\ hist[j].ret = PHNX_UNCORRECTABLE_ERROR
           /\ hist[j].reads = 0
           /\ hist[j].touched = {}
           /\ hist[j].after = hist[j].before

C7_Witness ==
    \E j \in 1..Len(hist) :
        /\ DecodeRun(j)
        /\ Cardinality(Missing(j)) = 2
        /\ Cardinality(DOMAIN hist[j].before \cap SliceNames) = 6
        /\ hist[j].ret = PHNX_UNCORRECTABLE_ERROR

(***************************************************************************)
(* C8: when the two 32-bit halves of the decrypted trailer word 0 differ,  *)
(* in decode mode and in compatibility decrypt, the call returns 2 before  *)
(* any pass of the loop, and no file has been created, written, renamed or *)
(* truncated.                                                              *)
(***************************************************************************)
C8_WrongPasswordBeforeBody ==
    \A j \in 1..Len(hist) :
        (hist[j].loc.trailer_read /\ hist[j].loc.halves[1] # hist[j].loc.halves[2])
        => /\ hist[j].ret = PHNX_WRONG_PASSWORD
           /\ hist[j].chunks = 0
           /\ hist[j].touched = {}
           /\ hist[j].after = hist[j].before

\* compatibility decrypt with another key than the one that encrypted
C8_Witness ==
    \E p \in Pairs :
        /\ EncryptRun(p[1])
        /\ hist[p[2]].filename = EncryptedName
        /\ hist[p[2]].key # hist[p[1]].key
        /\ hist[p[2]].loc.trailer_read
        /\ hist[p[2]].ret = PHNX_WRONG_PASSWORD
        /\ hist[p[2]].after = hist[p[1]].after

(***************************************************************************)
(* C9: after an encode run that returned OK on a file of L bytes, each of  *)
(* the eight slices has 3 * (ceil(L / 12) + 2) bytes.                      *)
(***************************************************************************)
C9_SliceLength ==
    \A i \in 1..Len(hist) :
        (EncodeRun(i) /\ hist[i].ret = PHNX_OK)
        => \A n \in SliceNames :
              /\ n \in DOMAIN hist[i].after
              /\ Len(hist[i].after[n])
                    = 3 * (((Len(hist[i].before[Base]) + 11) \div 12) + 2)

\* a file of more than one chunk
C9_Witness ==
    \E i \in 1..Len(hist) :
        /\ EncodeRun(i)
        /\ hist[i].ret = PHNX_OK
        /\ Len(hist[i].before[Base]) = BUFFER_LEN + 1
        /\ \A n \in SliceNames :
              Len(hist[i].after[n]) = 3 * ((BUFFER_LEN \div 12) + 3)

(***************************************************************************)
(* C10: a decode call in which GolayCode::decode returned the sentinel for *)
(* at least one codeword returns 3.                                        *)
(***************************************************************************)
C10_UncorrectableReturnsThree ==
    \A j \in 1..Len(hist) :
        (/\ DecodeRun(j)
         /\ hist[j].loc.gc.uncorrectable_codewords > 0)
        => hist[j].ret = PHNX_UNCORRECTABLE_ERROR

\* the name ends in ".encrypted-" followed by exactly eight hex digits
EightHexTail(filename) ==
    /\ Len(filename) >= Len(ENCRYPTED_DASH) + 8
    /\ SubSeq(filename, Len(filename) - 18, Len(filename) - 8) = ENCRYPTED_DASH
    /\ \A i \in (Len(filename) - 7)..Len(filename) : IsHexDigit(filename[i])

\* the mode the suffix and the compatibility flag stand for
ModeOfName(filename, compatibility_mode) ==
    IF IsSliceName(filename) THEN "decode"
    ELSE IF EndsWith(filename, ENCRYPTED_SUFFIX) THEN "decrypt"
    ELSE IF EightHexTail(filename) THEN "verify"
    ELSE IF compatibility_mode THEN "encrypt"
    ELSE "encode"

\* call j was refused for its missing slices before the mode flags were set
RefusedSlices(j) ==
    /\ IsSliceName(hist[j].filename)
    /\ hist[j].ret = PHNX_UNCORRECTABLE_ERROR
    /\ hist[j].reads = 0
    /\ hist[j].touched = {}

\* C11: the mode of every call is the one its file name and the
\* compatibility flag stand for: decode for .phnx_A to .phnx_H, compatibility
\* decrypt for .encrypted, checksum verify for .encrypted- followed by
\* exactly eight hex digits, and for every other name (a tail of fewer than
\* eight hex digits among them) encrypt-in-place with the flag on and encode
\* with the flag off.
C11_ModeFromSuffix ==
    \A j \in 1..Len(hist) :
        \/ RefusedSlices(j)
        \/ hist[j].mode = ModeOfName(hist[j].filename,
                                     hist[j].compatibility_mode)

\* the positions of the file arguments, in order
RECURSIVE file_positions(_, _)
file_positions(args, i) ==
    IF i > Len(args) THEN << >>
    ELSE IF IsFlag(args[i]) THEN file_positions(args, i + 1)
    ELSE <<i>> \o file_positions(args, i + 1)

\* the setting left by the last flag before position i
setting_before(args, i) ==
    LET flags == {k \in 1..(i - 1) : IsFlag(args[k])}
    IN  /\ flags # {}
        /\ args[CHOOSE k \in flags : \A m \in flags : m <= k] = DASH_C

\* the result of the last call that did not return 0, or 0
last_nonzero(calls) ==
    LET failed == {j \in 1..Len(calls) : calls[j].ret # PHNX_OK}
    IN  IF failed = {} THEN PHNX_OK
        ELSE calls[CHOOSE j \in failed : \A m \in failed : m <= j].ret

\* C12: when main exits, it has called process_one_file once for every file
\* argument, in the order of the arguments, each with the compatibility
\* setting of the last -c or -g before it (off when there is none), and the
\* exit code is the result of the last call that returned non-zero, or 0 when
\* every call returned 0.
C12_MainLoop ==
    main.pc = "exited" =>
        LET positions == file_positions(main.args, 1)
        IN  /\ Len(hist) = Len(positions)
            /\ \A j \in 1..Len(hist) :
                  /\ hist[j].filename = main.args[positions[j]]
                  /\ hist[j].compatibility_mode =
                         setting_before(main.args, positions[j])
            /\ main.exit_code = last_nonzero(hist)

\* three files between and after flags: a failure, a different failure, and
\* a success last
C12_Witness ==
    /\ main.pc = "exited"
    /\ Len(hist) = 3
    /\ hist[1].ret # PHNX_OK
    /\ hist[2].ret # PHNX_OK
    /\ hist[2].ret # hist[1].ret
    /\ hist[3].ret = PHNX_OK
    /\ main.exit_code = hist[2].ret
    /\ \E j \in 1..3 : hist[j].compatibility_mode

\* call j was compatibility decrypt of a file shorter than its trailer
ShortEncrypted(j) ==
    /\ hist[j].mode = "decrypt"
    /\ hist[j].filename \in DOMAIN hist[j].before
    /\ Len(hist[j].before[hist[j].filename]) < 16

\* call j was decode mode on slices that are all shorter than the six bytes
\* each holds of the trailer
ShortSlices(j) ==
    /\ hist[j].mode = "decode"
    /\ \A i \in 1..8 :
          hist[j].loc.slices[i].open =>
              Len(hist[j].before[hist[j].loc.slices[i].name]) < 6

\* C13: a call whose input is too short to hold its trailer, a .encrypted
\* file of less than 16 bytes in compatibility decrypt or slices of less than
\* 6 bytes in decode mode, returns the format-error code 4.
C13_TooShortIsFormatError ==
    \A j \in 1..Len(hist) :
        (ShortEncrypted(j) \/ ShortSlices(j)) => hist[j].ret = PHNX_FORMAT_ERROR

\* the bits of codeword i that differ between the slices as written and as
\* read
ErrorBits(i) ==
    BitXor(codeword_of_triplets(blk.written, i),
           codeword_of_triplets(blk.read, i))

\* the block was read with slice k missing and no bit flipped
ReadWithout(k) ==
    /\ blk.pc = "read"
    /\ blk.missing = {k}
    /\ blk.flips = {}

\* C14 as stated: a single missing slice, read as zeros, puts exactly one bit
\* error into each of the eight codewords (bit-planes) of a block.
C14_OneErrorPerCodeword ==
    \A k \in 0..7 :
        ReadWithout(k) => \A i \in 0..7 : count_ones(ErrorBits(i)) = 1

\* C14, amended: a single missing slice k, read as zeros, puts at most three
\* bit errors into each of the eight codewords of a block: the bits 3k, 3k+1
\* and 3k+2 of the codeword that were set.
C14_UpToThreeErrorsPerCodeword ==
    \A k \in 0..7 :
        ReadWithout(k) =>
            \A i \in 0..7 :
                /\ ErrorBits(i) =
                       BitAnd(codeword_of_triplets(blk.written, i),
                              7 * (2 ^ (3 * k)))
                /\ count_ones(ErrorBits(i)) <= 3

\* a missing slice costs one codeword three bits and another none, and the
\* block is read back as it was
C14_Witness ==
    \E k \in 0..7 :
        /\ ReadWithout(k)
        /\ \E i \in 0..7 : count_ones(ErrorBits(i)) = 3
        /\ \E i \in 0..7 : count_ones(ErrorBits(i)) = 0
        /\ blk.r.ret = PHNX_OK
        /\ blk.r.buffer = blk.twelvebytes

\* the name without ".encrypted"
Stripped(filename) == SubSeq(filename, 1, Len(filename) - 10)

\* C15: in compatibility decrypt the rename that strips .encrypted is the
\* last step and happens only on success: while the call runs no file
\* carries the stripped name unless it has its original length already (16
\* bytes less than the encrypted file), and a call that has left a file under
\* the stripped name has returned OK and the file has its original length.
C15_RenameIsLast ==
    /\ (pc # "idle" /\ Mode(loc) = "decrypt"
        /\ Stripped(call.filename) \in DOMAIN fs
        /\ Stripped(call.filename) \notin DOMAIN call.before)
           => Len(fs[Stripped(call.filename)])
                  = Len(call.before[call.filename]) - 16
    /\ \A j \in 1..Len(hist) :
          (/\ hist[j].mode = "decrypt"
           /\ Stripped(hist[j].filename) \in DOMAIN hist[j].after
           /\ Stripped(hist[j].filename) \notin DOMAIN hist[j].before)
              => /\ hist[j].ret = PHNX_OK
                 /\ Len(hist[j].after[Stripped(hist[j].filename)])
                        = Len(hist[j].before[hist[j].filename]) - 16

\* bytes 16c .. 16c+15 of the body, as far as it has been done, are those of
\* the data XORed with the bytes of w[1] and then of w[2]
BlockAgrees(c, w) ==
    \A b \in 0..15 :
        16 * c + b < Len(ctr.done) =>
            ctr.done[16 * c + b + 1] =
                Xor8[ctr.data[16 * c + b + 1]][w[(b \div 8) + 1][(b % 8) + 1]]

\* C16: at every point of the loop over the chunks of one body, bytes
\* 16c .. 16c+15 of what has been done are the data XORed with the
\* little-endian bytes of word 0 and then word 1 of the scalar
\* speck_encrypt of (nonce, c), with c counting on from 0 across the chunks,
\* and the register holds four copies of the nonce and the counters 4n, 4n+1,
\* 4n+2, 4n+3 of the next batch n.
C16_KeystreamOfScalarEncrypt ==
    ctr.pc # "none" =>
        /\ \A c \in 0..((Len(ctr.done) + 15) \div 16 - 1) :
              BlockAgrees(c, speck_encrypt(<<ctr.nonce, U64(c)>>,
                                           SCHEDULES[ctr.key]))
        /\ (Len(ctr.done) % 64 = 0) =>
              ctr.nonce_and_counter =
                  << ctr.nonce, ctr.nonce, ctr.nonce, ctr.nonce,
                     U64(Len(ctr.done) \div 16), U64(Len(ctr.done) \div 16 + 1),
                     U64(Len(ctr.done) \div 16 + 2),
                     U64(Len(ctr.done) \div 16 + 3) >>

\* a body of three chunks, the last one of a single byte, is done
C16_Witness ==
    /\ ctr.pc = "done"
    /\ ctr.passes = 3
    /\ Len(ctr.done) = 2 * BUFFER_LEN + 1
    /\ ctr.done # ctr.data

\* W_i: the 12-bit word whose bit j is bit i of byte j of the block
WordOfPlane(i) ==
    FromBits([j \in 0..11 |-> BitOf(blk.twelvebytes[j + 1], i)], 12)

\* the block has been written and the slices are as written
BlockWritten ==
    /\ blk.pc = "written"
    /\ blk.missing = {}
    /\ blk.flips = {}

\* T[3k .. 3k+2] are the bytes of slice k, in the order A..H
SlicesHoldTriplets ==
    \A k \in 0..7 :
        blk.files[slice_filename(Base, k)] =
            SubSeq(blk.written, 3 * k + 1, 3 * k + 3)

\* C17 as stated: bit i of T[3k + t] is bit (3k + t) of C_k, the codeword of
\* the plane with the number of the slice, and T[3k .. 3k+2] go to slice k.
C17_BitOfCodewordOfSlice ==
    BlockWritten =>
        /\ \A i \in 0..7, k \in 0..7, t \in 0..2 :
              BitOf(blk.written[3 * k + t + 1], i) =
                  BitOf(encode(WordOfPlane(k)), 3 * k + t)
        /\ SlicesHoldTriplets

\* C17, amended: with W_i the word whose bit j is bit i of B[j] and C_i its
\* Golay codeword, bit i of T[3k + t] is bit (3k + t) of C_i for every i in
\* 0..7, k in 0..7 and t in 0..2, and T[3k .. 3k+2] are the three bytes
\* written to slice k, in the order A..H.
C17_BitOfCodewordOfPlane ==
    BlockWritten =>
        /\ \A i \in 0..7, k \in 0..7, t \in 0..2 :
              BitOf(blk.written[3 * k + t + 1], i) =
                  BitOf(encode(WordOfPlane(i)), 3 * k + t)
        /\ SlicesHoldTriplets

\* a block whose eight codewords are not all the same has been written
C17_Witness ==
    /\ BlockWritten
    /\ \E i \in 0..7, k \in 0..7 :
          encode(WordOfPlane(i)) # encode(WordOfPlane(k))
    /\ \E k \in 0..7 : blk.files[slice_filename(Base, k)] # <<0, 0, 0>>

\* the last decode call changed the counters in one of the three ways
DecodeCounted ==
    /\ h_before.processed_codewords < I32_MAX
    /\ h_gc.processed_codewords = h_before.processed_codewords + 1
    /\ \/ /\ h_z # -1
          /\ h_errors = 0
          /\ h_gc.corrected_codewords = h_before.corrected_codewords
          /\ h_gc.uncorrectable_codewords = h_before.uncorrectable_codewords
       \/ /\ h_z # -1
          /\ h_errors # 0
          /\ h_gc.corrected_codewords = h_before.corrected_codewords + 1
          /\ h_gc.uncorrectable_codewords = h_before.uncorrectable_codewords
       \/ /\ h_z = -1
          /\ h_gc.corrected_codewords = h_before.corrected_codewords
          /\ h_gc.uncorrectable_codewords
                 = h_before.uncorrectable_codewords + 1

\* C18: over any sequence of calls on one GolayCode, a decode call returns
\* having added exactly 1 to processed_codewords and either left the other
\* counters alone (zero syndrome), or added 1 to corrected_codewords (data
\* returned, non-zero syndrome), or added 1 to uncorrectable_codewords (the
\* sentinel -1 returned, and only then); encode changes no counter; and
\* corrected_codewords + uncorrectable_codewords <= processed_codewords at
\* all times.
C18_CountersFollowDecodes ==
    /\ h_pc # "panicked"
    /\ (h_pc = "idle" /\ h_z # NoResult) => DecodeCounted
    /\ h_pc = "encoded" => h_gc = h_before
    /\ h_gc.corrected_codewords + h_gc.uncorrectable_codewords
           <= h_gc.processed_codewords

FourWrong == {i \in 0..7 : count_ones(ErrorBits(i)) = 4}

\* with one slice missing and one bit of another slice flipped, a codeword
\* of the block that has four bits wrong is counted as uncorrectable, at
\* least one codeword of the block is, and all twelve bits it contributes to
\* the block read are ones
FourthErrorIsCounted ==
    (blk.pc = "read" /\ blk.missing # {} /\ blk.flips # {} /\ FourWrong # {})
        => /\ blk.r.ret = PHNX_OK
           /\ blk.r.gc.uncorrectable_codewords = Cardinality(FourWrong)
           /\ \A i \in FourWrong, j \in 1..12 : BitOf(blk.r.buffer[j], i) = 1

\* the names of the eight slices of a file
SlicesOf(filename) == {slice_filename(filename, k) : k \in 0..7}

\* the names of the eight slices a slice name stands for
SlicesLike(filename) == {WithLastLetter(filename, k) : k \in 0..7}

\* call j left every file outside `names` as it was and made no new one
OnlyChanged(j, names) ==
    /\ hist[j].touched \subseteq names
    /\ DOMAIN hist[j].after \ names = DOMAIN hist[j].before \ names
    /\ \A n \in DOMAIN hist[j].before \ names :
          hist[j].after[n] = hist[j].before[n]

\* C20: a call in encode mode, whatever it returns, leaves its input file
\* under its name with its content and creates or writes no file other than
\* the eight slices <name>.phnx_A .. <name>.phnx_H; a call in decode mode,
\* whatever it returns, creates, writes or removes no slice file.
C20_EncodeKeepsInputDecodeKeepsSlices ==
    \A j \in 1..Len(hist) :
        /\ hist[j].mode = "encode" =>
              OnlyChanged(j, SlicesOf(hist[j].filename))
        /\ DecodeRun(j) =>
              OnlyChanged(j, (DOMAIN hist[j].before \cup DOMAIN hist[j].after)
                                 \ SlicesLike(hist[j].filename))

\* a file of more than one chunk was encoded and then decoded from seven
\* slices, both with success
C20_Witness ==
    \E i \in 1..Len(hist), j \in 1..Len(hist) :
        /\ i < j
        /\ EncodeRun(i)
        /\ hist[i].ret = PHNX_OK
        /\ hist[i].chunks = 2
        /\ hist[i].after[Base] = hist[i].before[Base]
        /\ DecodeRun(j)
        /\ hist[j].ret = PHNX_OK
        /\ Cardinality(Missing(j)) = 1

\* the call closed its file at line 702 and then returned the format-error
\* code from the checksum comparison (712) or the CRC-32C comparison (729)
MismatchAfterLoop(j) ==
    /\ hist[j].mode \in {"decrypt", "verify"}
    /\ hist[j].ret = PHNX_FORMAT_ERROR
    /\ ~hist[j].loc.f.open

\* the bytes of the file the streaming loop covers: all but the 16-byte
\* trailer in compatibility decrypt, the whole file in checksum verify
BodyBytes(j) ==
    IF hist[j].mode = "decrypt"
    THEN Len(hist[j].before[hist[j].filename]) - 16
    ELSE Len(hist[j].before[hist[j].filename])

\* the nonce of the keystream: the second trailer word freed of gamma in
\* compatibility decrypt, the length of the file in checksum verify
NonceOf(j) ==
    LET content == hist[j].before[hist[j].filename]
    IN  IF hist[j].mode = "decrypt"
        THEN Xor64(SubSeq(content, Len(content) - 7, Len(content)),
                   gamma_m1(SCHEDULES[hist[j].key])[2])
        ELSE U64(Len(content))

\* the content the file had before call j with the keystream of the call
\* XORed over its body
XoredInPlace(j) ==
    LET content == hist[j].before[hist[j].filename]
    IN  ctr_chunk(SubSeq(content, 1, BodyBytes(j)), BodyBytes(j),
                  counter_register(NonceOf(j)),
                  SCHEDULES[hist[j].key]).buffer
            \o SubSeq(content, BodyBytes(j) + 1, Len(content))

\* C21: when compatibility decrypt or checksum verify returns the
\* format-error code 4 for a mismatch found after the streaming loop, no file
\* was renamed, created or removed, the file has the length it had, every
\* other file is as it was, and the body of the file holds the CTR-XORed
\* bytes the loop wrote: the content is not rolled back.  (Stated of the call
\* that returned last, in the states before the next call begins.)
C21_MismatchLeavesXoredBody ==
    \A j \in {Len(hist)} :
        (pc = "idle" /\ j >= 1 /\ MismatchAfterLoop(j))
        => /\ DOMAIN hist[j].after = DOMAIN hist[j].before
           /\ \A n \in DOMAIN hist[j].before \ {hist[j].filename} :
                 hist[j].after[n] = hist[j].before[n]
           /\ Len(hist[j].after[hist[j].filename])
                 = Len(hist[j].before[hist[j].filename])
           /\ hist[j].after[hist[j].filename] = XoredInPlace(j)

\* a checksum verify and a compatibility decrypt of a file of more than one
\* chunk both ended with code 4 after the loop, and each left its file with
\* a content other than the one it found
C21_Witness ==
    \E i \in 1..Len(hist), j \in 1..Len(hist) :
        /\ MismatchAfterLoop(i)
        /\ hist[i].mode = "verify"
        /\ hist[i].after[hist[i].filename] # hist[i].before[hist[i].filename]
        /\ MismatchAfterLoop(j)
        /\ hist[j].mode = "decrypt"
        /\ hist[j].chunks = 2
        /\ hist[j].after[hist[j].filename] # hist[j].before[hist[j].filename]

====
